---- MODULE Spec2Model ----
(***************************************************************************)
(* Verification model of the strava-art-website route editor.              *)
(*                                                                         *)
(*  - the overlay transform engine (ResizableImageOverlay.jsx): nine      *)
(*    Leaflet handles plus the image body, dragstart / drag / dragend,    *)
(*    the authoritative box held by the parent and the live display;      *)
(*  - the road snapper (App: getOSRMRoute, snapToRoadsOSRM): waypoint     *)
(*    decimation, one routing request per consecutive pair, stitching.    *)
(*                                                                         *)
(* Numbers.  Latitudes and longitudes are exact rationals <<num, den>>    *)
(* measured in units of 0.0001 degree, so that the 0.0001 floor of the    *)
(* corner handles is the number 1.  Math.sqrt is exact whenever the root  *)
(* is rational and is otherwise rounded down to a multiple of 1/SqrtPrec. *)
(***************************************************************************)
EXTENDS Integers, Sequences, FiniteSets, TLC

(***************************************************************************)
(* Bounds of the model.                                                    *)
(***************************************************************************)
MaxGestures == 2
MaxDenominator == 16
SqrtPrec == 4
MaxPathLen == 2
MaxInput == 3
MaxDecimateInput == 125
MaxGrid == 2
MaxCommands == 2
MaxSnaps == 2
MaxRoute == 3
ImageHeight == 8
MaxOperations == 2
MaxSimplifyLen == 4
MaxClicks == 2
MaxActions == 6
MaxStarted == 2
MaxTraceWidth == 3

(***************************************************************************)
(* Rational arithmetic.                                                    *)
(***************************************************************************)
RECURSIVE Gcd(_, _)
Gcd(a, b) == IF b = 0 THEN a ELSE Gcd(b, a % b)

Abs(x) == IF x < 0 THEN -x ELSE x

Norm(n, d) ==
  LET g == Gcd(Abs(n), Abs(d))
      s == IF d < 0 THEN -1 ELSE 1
  IN  <<(s * n) \div g, (s * d) \div g>>

Rat(n) == <<n, 1>>
\* sums and comparisons go through the least common denominator
RAdd(a, b) ==
  LET g == Gcd(a[2], b[2])
  IN  Norm(a[1] * (b[2] \div g) + b[1] * (a[2] \div g), (a[2] \div g) * b[2])
RSub(a, b) == RAdd(a, <<-b[1], b[2]>>)
\* products cancel crosswise before multiplying
RMul(a, b) ==
  LET g1 == Gcd(Abs(a[1]), b[2])
      g2 == Gcd(Abs(b[1]), a[2])
  IN  Norm((a[1] \div g1) * (b[1] \div g2), (a[2] \div g2) * (b[2] \div g1))
RDiv(a, b) == RMul(a, IF b[1] < 0 THEN <<-b[2], -b[1]>> ELSE <<b[2], b[1]>>)
RLt(a, b) == RSub(a, b)[1] < 0
RLe(a, b) == RSub(a, b)[1] <= 0
RMax(a, b) == IF RLt(a, b) THEN b ELSE a
RHalf(a) == Norm(a[1], 2 * a[2])

\* floor of the square root of a natural number, by bisection on [lo, hi)
RECURSIVE ISqrtBetween(_, _, _)
ISqrtBetween(n, lo, hi) ==
  IF hi - lo <= 1 THEN lo
  ELSE LET mid == (lo + hi) \div 2
       IN  IF mid * mid <= n THEN ISqrtBetween(n, mid, hi)
                             ELSE ISqrtBetween(n, lo, mid)

ISqrt(n) == ISqrtBetween(n, 0, IF n < 46340 THEN n + 1 ELSE 46341)

IsSquare(n) == ISqrt(n) * ISqrt(n) = n

\* Math.sqrt on a non-negative rational
RSqrt(a) ==
  IF IsSquare(a[1]) /\ IsSquare(a[2])
  THEN Norm(ISqrt(a[1]), ISqrt(a[2]))
  ELSE Norm(ISqrt((a[1] * SqrtPrec * SqrtPrec) \div a[2]), SqrtPrec)

(***************************************************************************)
(* Overlay transform engine: props, inputs, geometry.                      *)
(***************************************************************************)
Epsilon == 1

NoRatio == <<>>
NoBox == <<>>
NoPos == <<>>
\* the nine handles by their index in markersRef, then the image body
Corners == 0 .. 3
Edges == 4 .. 7
CenterHandle == 8
Handles == 0 .. 8
ImageBody == CenterHandle + 1
NoHandle == CenterHandle + 2

\* aspect ratios an image can pin (width / height), or none
AspectRatios == {NoRatio, <<4, 3>>}

\* pointer positions (lat, lng) the drag events can report, and the
\* displacements (deltaLat, deltaLng) of an image-body drag
Pt(a, b) == [lat |-> Rat(a), lng |-> Rat(b)]

Pointers == {Pt(0, 0), Pt(6, 8), Pt(-3, -4), Pt(1, 1)}

Box(s, w, n, e) == [south |-> s, west |-> w, north |-> n, east |-> e]

Height(b) == RSub(b.north, b.south)
Width(b) == RSub(b.east, b.west)
CenterLat(b) == RHalf(RAdd(b.south, b.north))
CenterLng(b) == RHalf(RAdd(b.west, b.east))

\* boxes whose coordinates lie on the grids the model computes with
Representable(b) ==
  \A c \in {b.south, b.west, b.north, b.east} : c[2] <= MaxDenominator

ValidBox(b) == RLt(b.south, b.north) /\ RLt(b.west, b.east)

\* the box the parent hands over when the overlay is loaded: centred, with
\* overlayWidth = overlayHeight * aspectRatio
InitialBox(r) ==
  LET h == Rat(6)
      w == IF r = NoRatio THEN Rat(8) ELSE RMul(h, r)
  IN  Box(RSub(Rat(0), RHalf(h)), RSub(Rat(0), RHalf(w)), RHalf(h), RHalf(w))

\* positions of the nine handles for a box
MarkerPositions(b) ==
  [i \in Handles |->
     CASE i = 0 -> [lat |-> b.south, lng |-> b.west]
       [] i = 1 -> [lat |-> b.south, lng |-> b.east]
       [] i = 2 -> [lat |-> b.north, lng |-> b.east]
       [] i = 3 -> [lat |-> b.north, lng |-> b.west]
       [] i = 4 -> [lat |-> CenterLat(b), lng |-> b.west]
       [] i = 5 -> [lat |-> CenterLat(b), lng |-> b.east]
       [] i = 6 -> [lat |-> b.south, lng |-> CenterLng(b)]
       [] i = 7 -> [lat |-> b.north, lng |-> CenterLng(b)]
       [] OTHER -> [lat |-> CenterLat(b), lng |-> CenterLng(b)]]

\* ---- corner handle: uniform scale about the snapshot's centre
\* the scale measured against the whole diagonal instead of half of it
CornerScaleFactorFullDiagonal(sb, pos) ==
  LET deltaLat == RSub(pos.lat, CenterLat(sb))
      deltaLng == RSub(pos.lng, CenterLng(sb))
      diagonalDistance == RSqrt(RAdd(RMul(deltaLat, deltaLat), RMul(deltaLng, deltaLng)))
      startDiagonal == RSqrt(RAdd(RMul(Height(sb), Height(sb)), RMul(Width(sb), Width(sb))))
  IN  IF RLt(Rat(0), startDiagonal) THEN RDiv(diagonalDistance, startDiagonal) ELSE Rat(1)

CornerScaleFactor(sb, pos) ==
  LET deltaLat == RSub(pos.lat, CenterLat(sb))
      deltaLng == RSub(pos.lng, CenterLng(sb))
      diagonalDistance == RSqrt(RAdd(RMul(deltaLat, deltaLat), RMul(deltaLng, deltaLng)))
      halfH == RHalf(Height(sb))
      halfW == RHalf(Width(sb))
      startDiagonal == RSqrt(RAdd(RMul(halfH, halfH), RMul(halfW, halfW)))
  IN  IF RLt(Rat(0), startDiagonal) THEN RDiv(diagonalDistance, startDiagonal) ELSE Rat(1)

CornerNewHeight(sb, pos) == RMax(RMul(Height(sb), CornerScaleFactor(sb, pos)), Rat(Epsilon))

CornerNewWidthFromStartWidth(sb, pos, r) == RMul(Width(sb), CornerScaleFactor(sb, pos))

CornerNewWidth(sb, pos, r) == RMul(CornerNewHeight(sb, pos), r)

CornerNewBounds(sb, pos, r) ==
  LET newHeight == CornerNewHeight(sb, pos)
      newWidth == CornerNewWidth(sb, pos, r)
  IN  Box(RSub(CenterLat(sb), RHalf(newHeight)), RSub(CenterLng(sb), RHalf(newWidth)),
          RAdd(CenterLat(sb), RHalf(newHeight)), RAdd(CenterLng(sb), RHalf(newWidth)))

CornerAccept(sb, pos, r) ==
  /\ RLt(Rat(Epsilon), CornerNewHeight(sb, pos))
  /\ RLt(Rat(Epsilon), CornerNewWidth(sb, pos, r))

\* ---- edge handle: one side follows the pointer
\* an edge drag that keeps the centre, moving the opposite side too
EdgeNewBoundsSymmetric(index, sb, pos) ==
  CASE index = 0 -> Box(sb.south, pos.lng, sb.north, RSub(RAdd(sb.east, sb.west), pos.lng))
    [] index = 1 -> Box(sb.south, RSub(RAdd(sb.east, sb.west), pos.lng), sb.north, pos.lng)
    [] index = 2 -> Box(pos.lat, sb.west, RSub(RAdd(sb.north, sb.south), pos.lat), sb.east)
    [] OTHER     -> Box(RSub(RAdd(sb.north, sb.south), pos.lat), sb.west, pos.lat, sb.east)

EdgeNewBounds(index, sb, pos) ==
  CASE index = 0 -> Box(sb.south, pos.lng, sb.north, sb.east)
    [] index = 1 -> Box(sb.south, sb.west, sb.north, pos.lng)
    [] index = 2 -> Box(pos.lat, sb.west, sb.north, sb.east)
    [] OTHER     -> Box(sb.south, sb.west, pos.lat, sb.east)

EdgeAcceptNonStrict(nb) == RLe(nb.south, nb.north) /\ RLe(nb.west, nb.east)

EdgeAccept(nb) == RLt(nb.south, nb.north) /\ RLt(nb.west, nb.east)

\* a centre drag that spans the full start size on each side of the pointer
CenterNewBoundsFullSpan(sb, pos) ==
  Box(RSub(pos.lat, Height(sb)), RSub(pos.lng, Width(sb)),
      RAdd(pos.lat, Height(sb)), RAdd(pos.lng, Width(sb)))

\* ---- centre handle: rigid translation, centre on the pointer
CenterNewBounds(sb, pos) ==
  LET startHeight == Height(sb)
      startWidth == Width(sb)
  IN  Box(RSub(pos.lat, RHalf(startHeight)), RSub(pos.lng, RHalf(startWidth)),
          RAdd(pos.lat, RHalf(startHeight)), RAdd(pos.lng, RHalf(startWidth)))

\* ---- image body: rigid translation by the pointer displacement
ImageNewBounds(sb, d) ==
  Box(RAdd(sb.south, d.lat), RAdd(sb.west, d.lng), RAdd(sb.north, d.lat), RAdd(sb.east, d.lng))


(***************************************************************************)
(* State.                                                                  *)
(***************************************************************************)
VARIABLES
  \* ---- overlay (ResizableImageOverlay and its parent)
  bounds,            \* authoritative box: the parent's state, the bounds prop
  aspectRatio,       \* aspectRatio prop, NoRatio when none is pinned
  leafletElement,    \* whether overlayRef.current.leafletElement exists
  overlayBounds,     \* box the Leaflet image overlay is showing
  markerPos,         \* position of each of the nine handles
  dragStartBounds,   \* per handle: the closure's snapshot, NoBox when null
  isDraggingImage,   \* isDraggingImageRef.current
  dragStartPos,      \* dragStartPosRef.current.bounds, NoBox when null
  active,            \* handle whose Leaflet drag session is open
  gestures,          \* gestures started so far
  ptr,               \* pointer position of the latest event of the gesture
  candidate,         \* newBounds computed by the latest handler, or NoBox
  accepted,          \* whether that handler displayed / committed it
  lastEvent,         \* kind of the latest event
  lastHandle,        \* handle of the latest event
  gestureStartBox,   \* authoritative box when the gesture started
  boundsChangeCalls, \* onBoundsChange calls during the current gesture
  resnaps,           \* road re-snaps started by committed bounds
  \* ---- road snapper (one snapToRoadsOSRM call)
  mapPoints,         \* argument of the call
  waypoints,         \* waypoints after decimation
  segIndex,          \* loop variable i
  snappedPoints,     \* accumulated stitched route
  snapPc,            \* "idle", "loop", "await", "done"
  inflight,          \* pair indices whose routing request is in flight
  issued,            \* pair indices requested so far, in order of issue
  responses,         \* response received for each pair, in order
  boundaries,        \* length of snappedPoints after each pair
  snapResult,        \* value the call returned
  \* ---- decimation on its own (points stand for their array index)
  decInput,          \* number of input points
  decWaypoints,      \* indices selected as waypoints
  decRequests,       \* routing requests issued for them
  decPc,             \* "start", "loop", "done"
  \* ---- one call of a geometry function of the parent (App)
  callee,            \* function called, "none" before the call
  args,              \* its arguments
  result,            \* the value it returned
  \* ---- the parent (App): the Route and the operations that write it
  route,             \* the points state, the Route drawn on the map
  svgBounds,         \* svgBounds state, NoBox before an overlay is loaded
  svgNormalizedPoints, \* normalized points of the loaded SVG
  isSnappingRoads,   \* busy flag of the snapping operations
  isProcessingImage, \* busy flag of processImageWithMileage
  alerts,            \* alert() messages shown, by kind
  ops,               \* operations started, each awaiting or done
  finished,          \* indices in ops, in order of completion
  escaped,           \* whether an exception left an operation uncaught
  \* ---- the parent (App): clicks on the map and the SVG upload
  snapToRoads,       \* the snap-to-roads toggle
  isRouting,         \* busy flag of handleMapClick
  clicks,            \* snapped clicks, each awaiting its route or done
  isProcessingSVG,   \* busy flag of handleSVGUpload
  \* ---- the parent (App): freehand drawings
  drawnLines,        \* the lines drawn so far
  undoStack,         \* snapshots to go back to
  redoStack,         \* snapshots to go forward to
  drawLog            \* the state before each user action, latest last

overlayVars == <<bounds, aspectRatio, leafletElement, overlayBounds, markerPos,
                 dragStartBounds, isDraggingImage, dragStartPos, active, gestures,
                 ptr, candidate, accepted, lastEvent, lastHandle, gestureStartBox,
                 boundsChangeCalls, resnaps>>

snapVars == <<mapPoints, waypoints, segIndex, snappedPoints, snapPc, inflight,
              issued, responses, boundaries, snapResult>>

decVars == <<decInput, decWaypoints, decRequests, decPc>>

callVars == <<callee, args, result>>

appVars == <<route, svgBounds, svgNormalizedPoints, isSnappingRoads, isProcessingImage,
             alerts, ops, finished, escaped>>

pageVars == <<snapToRoads, isRouting, clicks, isProcessingSVG>>

drawVars == <<drawnLines, undoStack, redoStack, drawLog>>

vars == <<overlayVars, snapVars, decVars, callVars, appVars, pageVars, drawVars>>

\* the overlay as mounted by the parent; no snap call is running
OverlayInit ==
  /\ aspectRatio \in AspectRatios
  /\ leafletElement \in BOOLEAN
  /\ bounds = InitialBox(aspectRatio)
  /\ overlayBounds = bounds
  /\ markerPos = MarkerPositions(bounds)
  /\ dragStartBounds = [h \in Handles |-> NoBox]
  /\ isDraggingImage = FALSE
  /\ dragStartPos = NoBox
  /\ active = NoHandle
  /\ gestures = 0
  /\ ptr = NoPos
  /\ candidate = NoBox
  /\ accepted = FALSE
  /\ lastEvent = "none"
  /\ lastHandle = NoHandle
  /\ gestureStartBox = NoBox
  /\ boundsChangeCalls = 0
  /\ resnaps = 0
  /\ mapPoints = <<>>
  /\ waypoints = <<>>
  /\ segIndex = 0
  /\ snappedPoints = <<>>
  /\ snapPc = "idle"
  /\ inflight = {}
  /\ issued = <<>>
  /\ responses = <<>>
  /\ boundaries = <<>>
  /\ snapResult = <<>>
  /\ decInput = 0
  /\ decWaypoints = <<>>
  /\ decRequests = 0
  /\ decPc = "done"
  /\ callee = "none"
  /\ args = <<>>
  /\ result = <<>>
  /\ route = <<>>
  /\ svgBounds = NoBox
  /\ svgNormalizedPoints = <<>>
  /\ isSnappingRoads = FALSE
  /\ isProcessingImage = FALSE
  /\ alerts = <<>>
  /\ ops = <<>>
  /\ finished = <<>>
  /\ escaped = FALSE
  /\ snapToRoads = FALSE
  /\ isRouting = FALSE
  /\ clicks = <<>>
  /\ isProcessingSVG = FALSE
  /\ drawnLines = <<>>
  /\ undoStack = <<>>
  /\ redoStack = <<>>
  /\ drawLog = <<>>

(***************************************************************************)
(* Overlay: display and commit.                                            *)
(***************************************************************************)
\* overlay.setBounds(newBounds), only when the ref exposes leafletElement
updateOverlayBoundsVisually(newBounds) ==
  overlayBounds' = IF leafletElement THEN newBounds ELSE overlayBounds

\* setLatLng on all nine handles
updateMarkerPositions(newBounds) ==
  markerPos' = MarkerPositions(newBounds)

\* onBoundsChange(newBounds): the parent stores the box and starts a re-snap;
\* the changed bounds prop re-runs the effect, which rebuilds the nine
\* handles (fresh closures, snapshot null) and moves the overlay
commitBoundsChange(newBounds) ==
  /\ bounds' = newBounds
  /\ boundsChangeCalls' = boundsChangeCalls + 1
  /\ resnaps' = resnaps + 1
  /\ overlayBounds' = newBounds
  /\ markerPos' = MarkerPositions(newBounds)
  /\ dragStartBounds' = [h \in Handles |-> NoBox]

NoCommit == UNCHANGED <<bounds, boundsChangeCalls, resnaps>>

\* what a move event does with an accepted candidate: live display only
LiveUpdateNotifying(newBounds) ==
  /\ updateOverlayBoundsVisually(newBounds)
  /\ updateMarkerPositions(newBounds)
  /\ bounds' = newBounds
  /\ boundsChangeCalls' = boundsChangeCalls + 1
  /\ resnaps' = resnaps + 1

LiveUpdate(newBounds) ==
  /\ updateOverlayBoundsVisually(newBounds)
  /\ updateMarkerPositions(newBounds)
  /\ NoCommit

GestureBegins(h) ==
  /\ active = NoHandle
  /\ ~isDraggingImage
  /\ gestures < MaxGestures
  /\ Representable(bounds)
  /\ active' = h
  /\ gestures' = gestures + 1
  /\ gestureStartBox' = bounds
  /\ boundsChangeCalls' = 0
  /\ candidate' = NoBox
  /\ accepted' = FALSE
  /\ lastHandle' = h

\* Leaflet moves the dragged handle under the pointer before it fires 'drag'
MovedTo(h, p) == [markerPos EXCEPT ![h] = p]

(***************************************************************************)
(* Corner handles.                                                         *)
(***************************************************************************)
CornerDragStart(h) ==
  /\ h \in Corners
  /\ GestureBegins(h)
  /\ dragStartBounds' = [dragStartBounds EXCEPT ![h] = bounds]
  /\ ptr' = markerPos[h]
  /\ lastEvent' = "dragstart"
  /\ UNCHANGED <<bounds, aspectRatio, leafletElement, overlayBounds, markerPos,
                 isDraggingImage, dragStartPos, resnaps>>
  /\ UNCHANGED <<snapVars, decVars, pageVars, drawVars, callVars, appVars>>

CornerDrag(h, p) ==
  /\ h \in Corners
  /\ active = h
  /\ ptr' = p
  /\ lastEvent' = "drag"
  /\ lastHandle' = h
  /\ LET draggedPos == MovedTo(h, p)[h]
         sb == dragStartBounds[h]
     IN  IF aspectRatio = NoRatio \/ sb = NoBox
         THEN /\ markerPos' = MovedTo(h, p)
              /\ candidate' = NoBox
              /\ accepted' = FALSE
              /\ UNCHANGED overlayBounds
              /\ NoCommit
         ELSE /\ candidate' = CornerNewBounds(sb, draggedPos, aspectRatio)
              /\ accepted' = CornerAccept(sb, draggedPos, aspectRatio)
              /\ IF CornerAccept(sb, draggedPos, aspectRatio)
                 THEN LiveUpdate(CornerNewBounds(sb, draggedPos, aspectRatio))
                 ELSE /\ markerPos' = MovedTo(h, p)
                      /\ UNCHANGED overlayBounds
                      /\ NoCommit
  /\ UNCHANGED <<aspectRatio, leafletElement, dragStartBounds, isDraggingImage,
                 dragStartPos, active, gestures, gestureStartBox>>
  /\ UNCHANGED <<snapVars, decVars, pageVars, drawVars, callVars, appVars>>

CornerDragEnd(h) ==
  /\ h \in Corners
  /\ active = h
  /\ active' = NoHandle
  /\ lastEvent' = "dragend"
  /\ lastHandle' = h
  /\ LET draggedPos == markerPos[h]
         sb == dragStartBounds[h]
     IN  IF aspectRatio = NoRatio \/ sb = NoBox
         THEN /\ candidate' = NoBox
              /\ accepted' = FALSE
              /\ NoCommit
              /\ UNCHANGED <<overlayBounds, markerPos, dragStartBounds>>
         ELSE /\ candidate' = CornerNewBounds(sb, draggedPos, aspectRatio)
              /\ accepted' = CornerAccept(sb, draggedPos, aspectRatio)
              /\ IF CornerAccept(sb, draggedPos, aspectRatio)
                 THEN commitBoundsChange(CornerNewBounds(sb, draggedPos, aspectRatio))
                 ELSE /\ NoCommit
                      /\ dragStartBounds' = [dragStartBounds EXCEPT ![h] = NoBox]
                      /\ UNCHANGED <<overlayBounds, markerPos>>
  /\ UNCHANGED <<aspectRatio, leafletElement, isDraggingImage, dragStartPos,
                 gestures, ptr, gestureStartBox>>
  /\ UNCHANGED <<snapVars, decVars, pageVars, drawVars, callVars, appVars>>


(***************************************************************************)
(* Edge handles (marker 4 + index: west, east, south, north).              *)
(***************************************************************************)
EdgeDragStart(h) ==
  /\ h \in Edges
  /\ GestureBegins(h)
  /\ dragStartBounds' = [dragStartBounds EXCEPT ![h] = bounds]
  /\ ptr' = markerPos[h]
  /\ lastEvent' = "dragstart"
  /\ UNCHANGED <<bounds, aspectRatio, leafletElement, overlayBounds, markerPos,
                 isDraggingImage, dragStartPos, resnaps>>
  /\ UNCHANGED <<snapVars, decVars, pageVars, drawVars, callVars, appVars>>

EdgeDrag(h, p) ==
  /\ h \in Edges
  /\ active = h
  /\ ptr' = p
  /\ lastEvent' = "drag"
  /\ lastHandle' = h
  /\ LET draggedPos == MovedTo(h, p)[h]
         sb == dragStartBounds[h]
     IN  IF sb = NoBox
         THEN /\ markerPos' = MovedTo(h, p)
              /\ candidate' = NoBox
              /\ accepted' = FALSE
              /\ UNCHANGED overlayBounds
              /\ NoCommit
         ELSE /\ candidate' = EdgeNewBounds(h - 4, sb, draggedPos)
              /\ accepted' = EdgeAccept(EdgeNewBounds(h - 4, sb, draggedPos))
              /\ IF EdgeAccept(EdgeNewBounds(h - 4, sb, draggedPos))
                 THEN LiveUpdate(EdgeNewBounds(h - 4, sb, draggedPos))
                 ELSE /\ markerPos' = MovedTo(h, p)
                      /\ UNCHANGED overlayBounds
                      /\ NoCommit
  /\ UNCHANGED <<aspectRatio, leafletElement, dragStartBounds, isDraggingImage,
                 dragStartPos, active, gestures, gestureStartBox>>
  /\ UNCHANGED <<snapVars, decVars, pageVars, drawVars, callVars, appVars>>

EdgeDragEnd(h) ==
  /\ h \in Edges
  /\ active = h
  /\ active' = NoHandle
  /\ lastEvent' = "dragend"
  /\ lastHandle' = h
  /\ LET draggedPos == markerPos[h]
         sb == dragStartBounds[h]
     IN  IF sb = NoBox
         THEN /\ candidate' = NoBox
              /\ accepted' = FALSE
              /\ NoCommit
              /\ UNCHANGED <<overlayBounds, markerPos, dragStartBounds>>
         ELSE /\ candidate' = EdgeNewBounds(h - 4, sb, draggedPos)
              /\ accepted' = EdgeAccept(EdgeNewBounds(h - 4, sb, draggedPos))
              /\ IF EdgeAccept(EdgeNewBounds(h - 4, sb, draggedPos))
                 THEN commitBoundsChange(EdgeNewBounds(h - 4, sb, draggedPos))
                 ELSE /\ NoCommit
                      /\ dragStartBounds' = [dragStartBounds EXCEPT ![h] = NoBox]
                      /\ UNCHANGED <<overlayBounds, markerPos>>
  /\ UNCHANGED <<aspectRatio, leafletElement, isDraggingImage, dragStartPos,
                 gestures, ptr, gestureStartBox>>
  /\ UNCHANGED <<snapVars, decVars, pageVars, drawVars, callVars, appVars>>

(***************************************************************************)
(* Centre handle (marker 8).                                               *)
(***************************************************************************)
CenterDragStart ==
  /\ GestureBegins(CenterHandle)
  /\ dragStartBounds' = [dragStartBounds EXCEPT ![CenterHandle] = bounds]
  /\ ptr' = markerPos[CenterHandle]
  /\ lastEvent' = "dragstart"
  /\ UNCHANGED <<bounds, aspectRatio, leafletElement, overlayBounds, markerPos,
                 isDraggingImage, dragStartPos, resnaps>>
  /\ UNCHANGED <<snapVars, decVars, pageVars, drawVars, callVars, appVars>>

CenterDrag(p) ==
  /\ active = CenterHandle
  /\ ptr' = p
  /\ lastEvent' = "drag"
  /\ lastHandle' = CenterHandle
  /\ LET newCenter == MovedTo(CenterHandle, p)[CenterHandle]
         sb == dragStartBounds[CenterHandle]
     IN  IF sb = NoBox
         THEN /\ markerPos' = MovedTo(CenterHandle, p)
              /\ candidate' = NoBox
              /\ accepted' = FALSE
              /\ UNCHANGED overlayBounds
              /\ NoCommit
         ELSE /\ candidate' = CenterNewBounds(sb, newCenter)
              /\ accepted' = TRUE
              /\ LiveUpdate(CenterNewBounds(sb, newCenter))
  /\ UNCHANGED <<aspectRatio, leafletElement, dragStartBounds, isDraggingImage,
                 dragStartPos, active, gestures, gestureStartBox>>
  /\ UNCHANGED <<snapVars, decVars, pageVars, drawVars, callVars, appVars>>

CenterDragEnd ==
  /\ active = CenterHandle
  /\ active' = NoHandle
  /\ lastEvent' = "dragend"
  /\ lastHandle' = CenterHandle
  /\ LET newCenter == markerPos[CenterHandle]
         sb == dragStartBounds[CenterHandle]
     IN  IF sb = NoBox
         THEN /\ candidate' = NoBox
              /\ accepted' = FALSE
              /\ NoCommit
              /\ UNCHANGED <<overlayBounds, markerPos, dragStartBounds>>
         ELSE /\ candidate' = CenterNewBounds(sb, newCenter)
              /\ accepted' = TRUE
              /\ commitBoundsChange(CenterNewBounds(sb, newCenter))
  /\ UNCHANGED <<aspectRatio, leafletElement, isDraggingImage, dragStartPos,
                 gestures, ptr, gestureStartBox>>
  /\ UNCHANGED <<snapVars, decVars, pageVars, drawVars, callVars, appVars>>

(***************************************************************************)
(* Image body (DOM mouse events; installed only with leafletElement).      *)
(***************************************************************************)
onMouseDown ==
  /\ leafletElement
  /\ GestureBegins(ImageBody)
  /\ isDraggingImage' = TRUE
  /\ dragStartPos' = bounds
  /\ ptr' = [lat |-> Rat(0), lng |-> Rat(0)]
  /\ lastEvent' = "dragstart"
  /\ UNCHANGED <<bounds, aspectRatio, leafletElement, overlayBounds, markerPos,
                 dragStartBounds, resnaps>>
  /\ UNCHANGED <<snapVars, decVars, pageVars, drawVars, callVars, appVars>>

onMouseMove(d) ==
  /\ leafletElement
  /\ isDraggingImage
  /\ dragStartPos # NoBox
  /\ ptr' = d
  /\ lastEvent' = "drag"
  /\ lastHandle' = ImageBody
  /\ candidate' = ImageNewBounds(dragStartPos, d)
  /\ accepted' = TRUE
  /\ LiveUpdate(ImageNewBounds(dragStartPos, d))
  /\ UNCHANGED <<aspectRatio, leafletElement, dragStartBounds, isDraggingImage,
                 dragStartPos, active, gestures, gestureStartBox>>
  /\ UNCHANGED <<snapVars, decVars, pageVars, drawVars, callVars, appVars>>

onMouseUp(d) ==
  /\ leafletElement
  /\ isDraggingImage
  /\ dragStartPos # NoBox
  /\ ptr' = d
  /\ lastEvent' = "dragend"
  /\ lastHandle' = ImageBody
  /\ candidate' = ImageNewBounds(dragStartPos, d)
  /\ accepted' = TRUE
  /\ commitBoundsChange(ImageNewBounds(dragStartPos, d))
  /\ isDraggingImage' = FALSE
  /\ dragStartPos' = NoBox
  /\ active' = NoHandle
  /\ UNCHANGED <<aspectRatio, leafletElement, gestures, gestureStartBox>>
  /\ UNCHANGED <<snapVars, decVars, pageVars, drawVars, callVars, appVars>>

OverlayNext ==
  \/ \E h \in Corners : CornerDragStart(h)
  \/ \E h \in Corners, p \in Pointers : CornerDrag(h, p)
  \/ \E h \in Corners : CornerDragEnd(h)
  \/ \E h \in Edges : EdgeDragStart(h)
  \/ \E h \in Edges, p \in Pointers : EdgeDrag(h, p)
  \/ \E h \in Edges : EdgeDragEnd(h)
  \/ CenterDragStart
  \/ \E p \in Pointers : CenterDrag(p)
  \/ CenterDragEnd
  \/ onMouseDown
  \/ \E d \in Pointers : onMouseMove(d)
  \/ \E d \in Pointers : onMouseUp(d)

SpecOverlay == OverlayInit /\ [][OverlayNext]_vars


(***************************************************************************)
(* Road snapper: getOSRMRoute and snapToRoadsOSRM.                         *)
(***************************************************************************)
MAX_WAYPOINTS == 40

\* geographic points of the snapper's inputs and of the routed paths
GeoPoints == {"A", "B"}

RECURSIVE SeqsUpTo(_, _)
SeqsUpTo(S, n) ==
  IF n = 0 THEN {<<>>}
  ELSE LET shorter == SeqsUpTo(S, n - 1)
       IN  shorter \cup {Append(q, x) : q \in {t \in shorter : Len(t) = n - 1}, x \in S}

\* what the routing service can answer to one request: the fetch rejects or
\* the body is not JSON ("throw"), a status that is not ok ("http"), a code
\* other than 'Ok' or no route ("notOk"), or a route with its coordinates
RoutingResponses ==
  {[kind |-> k, path |-> <<>>] : k \in {"throw", "http", "notOk"}}
    \cup {[kind |-> "ok", path |-> q] : q \in SeqsUpTo(GeoPoints, MaxPathLen)}

Failed(resp) == resp.kind # "ok" \/ Len(resp.path) = 0

\* getOSRMRoute: the routed path, or the straight line when anything fails
getOSRMRoute(start, end, resp) ==
  IF resp.kind = "ok" THEN resp.path ELSE <<start, end>>

Ceil(a, b) == (a + b - 1) \div b

\* the stride alone, without the forced final point
DecimateIndicesStrideOnly(n) ==
  IF n > MAX_WAYPOINTS
  THEN LET step == Ceil(n, MAX_WAYPOINTS)
       IN  [j \in 1 .. Ceil(n, step) |-> (j - 1) * step + 1]
  ELSE [j \in 1 .. n |-> j]

\* indices (from 1) of the input points kept as waypoints; two entries of
\* the input are the same object exactly when they have the same index
DecimateIndices(n) ==
  IF n > MAX_WAYPOINTS
  THEN LET step == Ceil(n, MAX_WAYPOINTS)
           count == Ceil(n, step)
           strided == [j \in 1 .. count |-> (j - 1) * step + 1]
       IN  IF strided[count] # n THEN Append(strided, n) ELSE strided
  ELSE [j \in 1 .. n |-> j]

Decimate(points) ==
  LET idx == DecimateIndices(Len(points))
  IN  [j \in 1 .. Len(idx) |-> points[idx[j]]]

\* the body of the loop for pair i (from 0) once its segment is known
StitchKeepingFirst(snapped, i, wps, segment) ==
  IF Len(segment) > 0
  THEN snapped \o segment
  ELSE (IF i = 0 THEN Append(snapped, wps[i + 1]) ELSE snapped) \o <<wps[i + 2]>>

StitchBothOnEmpty(snapped, i, wps, segment) ==
  IF Len(segment) > 0
  THEN IF i = 0 THEN snapped \o segment ELSE snapped \o Tail(segment)
  ELSE snapped \o <<wps[i + 1], wps[i + 2]>>

Stitch(snapped, i, wps, segment) ==
  IF Len(segment) > 0
  THEN IF i = 0 THEN snapped \o segment ELSE snapped \o Tail(segment)
  ELSE (IF i = 0 THEN Append(snapped, wps[i + 1]) ELSE snapped) \o <<wps[i + 2]>>

\* the loop issues the request for pair k only when it stands at pair k
MayIssueAhead(k) == snapPc \in {"loop", "await"} /\ k \notin inflight /\ k >= segIndex

MayIssue(k) == snapPc = "loop" /\ k = segIndex

snapToRoadsOSRM(pts) ==
  /\ snapPc = "idle"
  /\ mapPoints' = pts
  /\ IF Len(pts) < 2
     THEN /\ snapResult' = pts
          /\ snapPc' = "done"
          /\ UNCHANGED waypoints
     ELSE /\ waypoints' = Decimate(pts)
          /\ snapPc' = "loop"
          /\ UNCHANGED snapResult
  /\ UNCHANGED <<segIndex, snappedPoints, inflight, issued, responses, boundaries>>
  /\ UNCHANGED <<overlayVars, decVars, pageVars, drawVars, callVars, appVars>>

\* await getOSRMRoute(waypoints[i], waypoints[i + 1]): the fetch goes out
IssueRequest(k) ==
  /\ k \in 0 .. Len(waypoints) - 2
  /\ MayIssue(k)
  /\ inflight' = inflight \cup {k}
  /\ issued' = Append(issued, k)
  /\ snapPc' = "await"
  /\ UNCHANGED <<mapPoints, waypoints, segIndex, snappedPoints, responses, boundaries, snapResult>>
  /\ UNCHANGED <<overlayVars, decVars, pageVars, drawVars, callVars, appVars>>

\* the answer arrives: getOSRMRoute returns and the loop body stitches
ReceiveResponse(k, resp) ==
  /\ k \in inflight
  /\ inflight' = inflight \ {k}
  /\ responses' = Append(responses, resp)
  /\ snappedPoints' = Stitch(snappedPoints, k, waypoints,
                             getOSRMRoute(waypoints[k + 1], waypoints[k + 2], resp))
  /\ boundaries' = Append(boundaries, Len(snappedPoints'))
  /\ segIndex' = k + 1
  /\ snapPc' = "loop"
  /\ UNCHANGED <<mapPoints, waypoints, issued, snapResult>>
  /\ UNCHANGED <<overlayVars, decVars, pageVars, drawVars, callVars, appVars>>

\* the loop is over: return snappedPoints
SnapReturn ==
  /\ snapPc = "loop"
  /\ segIndex >= Len(waypoints) - 1
  /\ snapResult' = snappedPoints
  /\ snapPc' = "done"
  /\ UNCHANGED <<mapPoints, waypoints, segIndex, snappedPoints, inflight, issued, responses,
                 boundaries>>
  /\ UNCHANGED <<overlayVars, decVars, pageVars, drawVars, callVars, appVars>>

SnapNext ==
  \/ \E pts \in SeqsUpTo(GeoPoints, MaxInput) : snapToRoadsOSRM(pts)
  \/ \E k \in 0 .. MaxInput : IssueRequest(k)
  \/ \E k \in 0 .. MaxInput, resp \in RoutingResponses : ReceiveResponse(k, resp)
  \/ SnapReturn

\* before the call; the overlay is mounted and left alone
SnapInit ==
  /\ mapPoints = <<>>
  /\ waypoints = <<>>
  /\ segIndex = 0
  /\ snappedPoints = <<>>
  /\ snapPc = "idle"
  /\ inflight = {}
  /\ issued = <<>>
  /\ responses = <<>>
  /\ boundaries = <<>>
  /\ snapResult = <<>>
  /\ decInput = 0
  /\ decWaypoints = <<>>
  /\ decRequests = 0
  /\ decPc = "done"
  /\ aspectRatio = NoRatio
  /\ leafletElement = FALSE
  /\ bounds = InitialBox(NoRatio)
  /\ overlayBounds = bounds
  /\ markerPos = MarkerPositions(bounds)
  /\ dragStartBounds = [h \in Handles |-> NoBox]
  /\ isDraggingImage = FALSE
  /\ dragStartPos = NoBox
  /\ active = NoHandle
  /\ gestures = 0
  /\ ptr = NoPos
  /\ candidate = NoBox
  /\ accepted = FALSE
  /\ lastEvent = "none"
  /\ lastHandle = NoHandle
  /\ gestureStartBox = NoBox
  /\ boundsChangeCalls = 0
  /\ resnaps = 0
  /\ callee = "none"
  /\ args = <<>>
  /\ result = <<>>
  /\ route = <<>>
  /\ svgBounds = NoBox
  /\ svgNormalizedPoints = <<>>
  /\ isSnappingRoads = FALSE
  /\ isProcessingImage = FALSE
  /\ alerts = <<>>
  /\ ops = <<>>
  /\ finished = <<>>
  /\ escaped = FALSE
  /\ snapToRoads = FALSE
  /\ isRouting = FALSE
  /\ clicks = <<>>
  /\ isProcessingSVG = FALSE
  /\ drawnLines = <<>>
  /\ undoStack = <<>>
  /\ redoStack = <<>>
  /\ drawLog = <<>>

SpecSnap == SnapInit /\ [][SnapNext]_vars

(***************************************************************************)
(* Decimation and the number of requests, for inputs of every length.      *)
(***************************************************************************)
DecInit ==
  /\ decInput \in 0 .. MaxDecimateInput
  /\ decWaypoints = <<>>
  /\ decRequests = 0
  /\ decPc = "start"
  /\ mapPoints = <<>>
  /\ waypoints = <<>>
  /\ segIndex = 0
  /\ snappedPoints = <<>>
  /\ snapPc = "idle"
  /\ inflight = {}
  /\ issued = <<>>
  /\ responses = <<>>
  /\ boundaries = <<>>
  /\ snapResult = <<>>
  /\ aspectRatio = NoRatio
  /\ leafletElement = FALSE
  /\ bounds = InitialBox(NoRatio)
  /\ overlayBounds = bounds
  /\ markerPos = MarkerPositions(bounds)
  /\ dragStartBounds = [h \in Handles |-> NoBox]
  /\ isDraggingImage = FALSE
  /\ dragStartPos = NoBox
  /\ active = NoHandle
  /\ gestures = 0
  /\ ptr = NoPos
  /\ candidate = NoBox
  /\ accepted = FALSE
  /\ lastEvent = "none"
  /\ lastHandle = NoHandle
  /\ gestureStartBox = NoBox
  /\ boundsChangeCalls = 0
  /\ resnaps = 0
  /\ callee = "none"
  /\ args = <<>>
  /\ result = <<>>
  /\ route = <<>>
  /\ svgBounds = NoBox
  /\ svgNormalizedPoints = <<>>
  /\ isSnappingRoads = FALSE
  /\ isProcessingImage = FALSE
  /\ alerts = <<>>
  /\ ops = <<>>
  /\ finished = <<>>
  /\ escaped = FALSE
  /\ snapToRoads = FALSE
  /\ isRouting = FALSE
  /\ clicks = <<>>
  /\ isProcessingSVG = FALSE
  /\ drawnLines = <<>>
  /\ undoStack = <<>>
  /\ redoStack = <<>>
  /\ drawLog = <<>>

\* lines 278-292: the early return and the decimation
DecimateCall ==
  /\ decPc = "start"
  /\ decWaypoints' = DecimateIndices(decInput)
  /\ decPc' = IF decInput < 2 THEN "done" ELSE "loop"
  /\ UNCHANGED <<decInput, decRequests>>
  /\ UNCHANGED <<overlayVars, snapVars, pageVars, drawVars, callVars, appVars>>

\* one turn of the loop: one routing request
DecimateRequest ==
  /\ decPc = "loop"
  /\ decRequests < Len(decWaypoints) - 1
  /\ decRequests' = decRequests + 1
  /\ UNCHANGED <<decInput, decWaypoints, decPc>>
  /\ UNCHANGED <<overlayVars, snapVars, pageVars, drawVars, callVars, appVars>>

DecimateReturn ==
  /\ decPc = "loop"
  /\ decRequests >= Len(decWaypoints) - 1
  /\ decPc' = "done"
  /\ UNCHANGED <<decInput, decWaypoints, decRequests>>
  /\ UNCHANGED <<overlayVars, snapVars, pageVars, drawVars, callVars, appVars>>

DecNext == DecimateCall \/ DecimateRequest \/ DecimateReturn

SpecDecimate == DecInit /\ [][DecNext]_vars


(***************************************************************************)
(* Properties of the overlay transform engine (SpecOverlay).               *)
(***************************************************************************)
GestureEnded == lastEvent = "dragend"
GestureMoved == lastEvent = "drag"

\* the box the nine handles are drawn around
HandleBox == Box(markerPos[0].lat, markerPos[0].lng, markerPos[2].lat, markerPos[2].lng)

\* a candidate the gesture must not commit: inverted or flat, or, for a
\* corner handle, not above the epsilon floor in height or in width
Degenerate(h, b) ==
  \/ ~ValidBox(b)
  \/ /\ h \in Corners
     /\ ~(RLt(Rat(Epsilon), Height(b)) /\ RLt(Rat(Epsilon), Width(b)))

\* C1: the authoritative box always has south < north and west < east, and
\* a gesture that ends on a degenerate candidate has committed nothing: the
\* authoritative box is the one the gesture started from.
C1_NonDegenerate ==
  /\ ValidBox(bounds)
  /\ (GestureEnded /\ candidate # NoBox /\ Degenerate(lastHandle, candidate))
       => (bounds = gestureStartBox /\ boundsChangeCalls = 0)

C1_Witness ==
  /\ GestureEnded
  /\ gestures = 2
  /\ lastHandle \in Edges
  /\ candidate # NoBox
  /\ ~ValidBox(candidate)
  /\ bounds = gestureStartBox
  /\ bounds # InitialBox(aspectRatio)

HasRatio(b, r) == Width(b) = RMul(Height(b), r)

\* C2: with a pinned aspect ratio r, every candidate a corner handle
\* displays on a move and every box a corner handle commits has
\* width = r * height, and so has the box drawn by the handles.
C2_AspectRatioPreserved ==
  (aspectRatio # NoRatio /\ lastHandle \in Corners /\ accepted)
    => /\ HasRatio(candidate, aspectRatio)
       /\ HasRatio(HandleBox, aspectRatio)
       /\ GestureMoved => HandleBox = candidate
       /\ (GestureMoved /\ leafletElement) => overlayBounds = candidate
       /\ GestureEnded => (bounds = candidate /\ overlayBounds = candidate)

C2_Witness ==
  /\ aspectRatio # NoRatio
  /\ lastHandle \in Corners
  /\ GestureEnded
  /\ accepted
  /\ gestures = 2
  /\ bounds = candidate
  /\ ~HasRatio(gestureStartBox, aspectRatio)

\* the box a handle derives from a snapshot and a pointer position
CandidateFrom(h, sb, pos, r) ==
  CASE h \in Corners -> CornerNewBounds(sb, pos, r)
    [] h \in Edges -> EdgeNewBounds(h - 4, sb, pos)
    [] h = CenterHandle -> CenterNewBounds(sb, pos)
    [] OTHER -> ImageNewBounds(sb, pos)

\* C3: the box computed on a move event and the box computed at gesture end
\* are determined by the snapshot taken at dragstart and the pointer
\* position alone.
C3_SnapshotAndPointerOnly ==
  ((GestureMoved \/ GestureEnded) /\ candidate # NoBox)
    => candidate = CandidateFrom(lastHandle, gestureStartBox, ptr, aspectRatio)

\* C4: after every dragend the handle is Idle and its snapshot is
\* discarded, for every kind of handle, with or without an aspect ratio.
C4_IdleAfterDragEnd ==
  GestureEnded
    => /\ active = NoHandle
       /\ \A h \in Handles : dragStartBounds[h] = NoBox
       /\ ~isDraggingImage
       /\ dragStartPos = NoBox

\* C5: a move event never calls onBoundsChange and never starts a re-snap;
\* onBoundsChange is called at most once in a gesture, and only when the
\* gesture ends.
C5_CommitOnlyAtGestureEnd ==
  [][/\ lastEvent' = "drag"
          => (boundsChangeCalls' = boundsChangeCalls /\ resnaps' = resnaps /\ bounds' = bounds)
     /\ boundsChangeCalls' <= 1
     /\ (resnaps' # resnaps \/ boundsChangeCalls' > boundsChangeCalls)
          => lastEvent' = "dragend"]_vars

C5_Witness ==
  /\ GestureMoved
  /\ accepted
  /\ gestures = 2
  /\ resnaps = 1
  /\ boundsChangeCalls = 0
  /\ HandleBox = candidate
  /\ bounds # candidate


(***************************************************************************)
(* Properties of the road snapper (SpecSnap, SpecDecimate).                *)
(***************************************************************************)
SnapDone == snapPc = "done" /\ Len(mapPoints) >= 2

Pairs == 1 .. Len(waypoints) - 1

FailedPairs == {j \in Pairs : Failed(responses[j])}

Last(q) == q[Len(q)]

\* the segment of pair j: the routed path, or the straight line between the
\* pair's raw waypoints when routing failed
SegmentOf(j) ==
  IF Failed(responses[j]) THEN <<waypoints[j], waypoints[j + 1]>> ELSE responses[j].path

\* C6: the stitched route has no two equal consecutive points where one
\* pair's contribution ends and the next begins, starts with the first
\* point of the first pair's segment and ends with the last point of the
\* last pair's segment.
C6_NoDuplicateJunctions ==
  SnapDone
    => /\ \A j \in 1 .. Len(boundaries) - 1 :
            (boundaries[j] >= 1 /\ boundaries[j] < Len(snapResult))
              => snapResult[boundaries[j]] # snapResult[boundaries[j] + 1]
       /\ Head(snapResult) = Head(SegmentOf(1))
       /\ Last(snapResult) = Last(SegmentOf(Len(waypoints) - 1))

\* what pair j adds to the route when it is the only failed pair
PieceWithFallback(j) ==
  IF Failed(responses[j])
  THEN IF j = 1 THEN <<waypoints[1], waypoints[2]>> ELSE <<waypoints[j + 1]>>
  ELSE IF j = 1 THEN responses[j].path ELSE Tail(responses[j].path)

RECURSIVE RouteWithFallback(_)
RouteWithFallback(j) ==
  IF j = 0 THEN <<>> ELSE RouteWithFallback(j - 1) \o PieceWithFallback(j)

\* C7: when routing fails for exactly one pair k, the call still returns a
\* route: every other pair contributes its routed path and pair k its raw
\* waypoints (both for the first pair, the second one otherwise).
C7_GracefulDegradation ==
  (SnapDone /\ Cardinality(FailedPairs) = 1)
    => /\ Len(responses) = Len(waypoints) - 1
       /\ snapResult = RouteWithFallback(Len(waypoints) - 1)

C7_Witness ==
  /\ SnapDone
  /\ Len(waypoints) = 3
  /\ FailedPairs = {2}
  /\ responses[2].kind = "ok"
  /\ Len(responses[1].path) = 2
  /\ snapResult = responses[1].path \o <<waypoints[3]>>

RECURSIVE RoutedPaths(_)
RoutedPaths(j) ==
  IF j = 0 THEN <<>>
  ELSE IF j = 1 THEN responses[1].path
  ELSE RoutedPaths(j - 1) \o SubSeq(responses[j].path, 2, Len(responses[j].path))

\* C8: when every request succeeds, the route is the first pair's whole
\* path followed by every later pair's path without its first point.
C8_StitchAllRouted ==
  (SnapDone /\ FailedPairs = {}) => snapResult = RoutedPaths(Len(waypoints) - 1)

C8_Witness ==
  /\ SnapDone
  /\ FailedPairs = {}
  /\ Len(waypoints) = 3
  /\ Len(responses[1].path) = 2
  /\ Len(responses[2].path) = 2
  /\ Len(snapResult) = 3

\* C9: requests go out one at a time in waypoint order: at most one is in
\* flight, pair k is requested only after pairs 0 .. k-1 have been answered
\* and stitched.
C9_OneRequestAtATime ==
  /\ Cardinality(inflight) <= 1
  /\ \A n \in 1 .. Len(issued) : issued[n] = n - 1
  /\ Len(issued) <= Len(responses) + 1
  /\ \A k \in inflight : k = segIndex /\ Len(responses) = k /\ Len(boundaries) = k

C9_Witness ==
  /\ inflight = {1}
  /\ issued = <<0, 1>>
  /\ Len(responses) = 1
  /\ snapPc = "await"

\* C10: the waypoint list has at most MAX_WAYPOINTS points and the call
\* issues at most MAX_WAYPOINTS - 1 routing requests.
C10_WaypointBudget ==
  decPc # "start"
    => /\ Len(decWaypoints) <= MAX_WAYPOINTS
       /\ decRequests <= MAX_WAYPOINTS - 1

\* C11: within budget the waypoints are the input unchanged; over budget
\* they are, in order, the points at indices 0, s, 2s, ... with
\* s = ceil(n / MAX_WAYPOINTS), and the final input point is the last
\* waypoint, present exactly once.
StrideOf(n) == Ceil(n, MAX_WAYPOINTS)

C11_Decimation ==
  decPc # "start" =>
    LET n == decInput
        w == decWaypoints
        s == StrideOf(n)
        strided == {i \in 1 .. n : (i - 1) % s = 0}
    IN  IF n <= MAX_WAYPOINTS
        THEN w = [j \in 1 .. n |-> j]
        ELSE /\ \A j \in 1 .. Len(w) - 1 : w[j] < w[j + 1]
             /\ \A j \in 1 .. Cardinality(strided) : w[j] = (j - 1) * s + 1
             /\ {w[j] : j \in 1 .. Len(w)} = strided \cup {n}
             /\ w[Len(w)] = n
             /\ Cardinality({j \in 1 .. Len(w) : w[j] = n}) = 1

\* over budget, with a stride that skips the final point
C11_Witness ==
  /\ decPc = "done"
  /\ decInput > MAX_WAYPOINTS
  /\ (decInput - 1) % StrideOf(decInput) # 0
  /\ decWaypoints[Len(decWaypoints)] = decInput
  /\ decRequests = Len(decWaypoints) - 1

(***************************************************************************)
(* Conversions of normalized / image-space points into geographic space.   *)
(***************************************************************************)
\* points are the code's two-element arrays: <<x, y>> going in, <<lat, lng>>
\* coming out
ConvBoxes == {Box(Rat(-3), Rat(-4), Rat(3), Rat(4)), Box(Rat(1), Rat(2), Rat(5), Rat(10))}

GridCoords == 0 .. MaxGrid
GridPoints == {<<x, y>> : x \in GridCoords, y \in GridCoords}

\* a grid point as a point of the unit square
Normalized(g) == <<Norm(g[1], MaxGrid), Norm(g[2], MaxGrid)>>

\* the canvas of imageToRoute has one pixel per grid coordinate
CanvasSize == MaxGrid + 1

normalizedToMapCoords(normalizedPoints, b) ==
  IF b = NoBox \/ Len(normalizedPoints) = 0 THEN <<>>
  ELSE LET height == RSub(b.north, b.south)
           width == RSub(b.east, b.west)
       IN  [i \in 1 .. Len(normalizedPoints) |->
              <<RSub(b.north, RMul(normalizedPoints[i][2], height)),
                RAdd(b.west, RMul(normalizedPoints[i][1], width))>>]

\* the mapping step of tracePNGAndSnap
tracePNGMapPoints(simplifiedPoints, b) ==
  LET height == RSub(b.north, b.south)
      width == RSub(b.east, b.west)
  IN  [i \in 1 .. Len(simplifiedPoints) |->
         <<RSub(b.north, RMul(simplifiedPoints[i][2], height)),
           RAdd(b.west, RMul(simplifiedPoints[i][1], width))>>]

svgToMapCoordinates(svgPoints, b) ==
  LET centerLat == CenterLat(b)
      centerLng == CenterLng(b)
  IN  [i \in 1 .. Len(svgPoints) |->
         <<RAdd(centerLat, RMul(RSub(svgPoints[i][2], <<1, 2>>), RSub(b.north, b.south))),
           RAdd(centerLng, RMul(RSub(svgPoints[i][1], <<1, 2>>), RSub(b.east, b.west)))>>]

\* the pixel mapping of imageToRoute, for the pixels found dark
imageToRoutePixels(pixels, b, canvasWidth, canvasHeight) ==
  LET centerLat == CenterLat(b)
      centerLng == CenterLng(b)
  IN  [i \in 1 .. Len(pixels) |->
         LET normalizedX == RSub(Norm(pixels[i][1], canvasWidth), <<1, 2>>)
             normalizedY == RSub(Norm(pixels[i][2], canvasHeight), <<1, 2>>)
         IN  <<RAdd(centerLat, RMul(normalizedY, RSub(b.north, b.south))),
               RAdd(centerLng, RMul(normalizedX, RSub(b.east, b.west)))>>]

NormalizedArgs == [i \in 1 .. Len(args.points) |-> Normalized(args.points[i])]

Call(name, value) ==
  /\ callee = "none"
  /\ callee' = name
  /\ result' = value
  /\ UNCHANGED <<args, overlayVars, snapVars, decVars, pageVars, drawVars, appVars>>

ConvertNormalized == Call("normalizedToMapCoords", normalizedToMapCoords(NormalizedArgs, args.bounds))
ConvertTrace == Call("tracePNGAndSnap", tracePNGMapPoints(NormalizedArgs, args.bounds))
ConvertSvg == Call("svgToMapCoordinates", svgToMapCoordinates(NormalizedArgs, args.bounds))
ConvertImage ==
  Call("imageToRoute", imageToRoutePixels(args.points, args.bounds, CanvasSize, CanvasSize))

ConvNext == ConvertNormalized \/ ConvertTrace \/ ConvertSvg \/ ConvertImage

ConvInit ==
  /\ callee = "none"
  /\ args \in {[bounds |-> b, points |-> <<g1, g2>>] :
                 b \in ConvBoxes, g1 \in GridPoints, g2 \in GridPoints}
  /\ result = <<>>
  /\ aspectRatio = NoRatio
  /\ leafletElement = FALSE
  /\ bounds = InitialBox(NoRatio)
  /\ overlayBounds = bounds
  /\ markerPos = MarkerPositions(bounds)
  /\ dragStartBounds = [h \in Handles |-> NoBox]
  /\ isDraggingImage = FALSE
  /\ dragStartPos = NoBox
  /\ active = NoHandle
  /\ gestures = 0
  /\ ptr = NoPos
  /\ candidate = NoBox
  /\ accepted = FALSE
  /\ lastEvent = "none"
  /\ lastHandle = NoHandle
  /\ gestureStartBox = NoBox
  /\ boundsChangeCalls = 0
  /\ resnaps = 0
  /\ mapPoints = <<>>
  /\ waypoints = <<>>
  /\ segIndex = 0
  /\ snappedPoints = <<>>
  /\ snapPc = "idle"
  /\ inflight = {}
  /\ issued = <<>>
  /\ responses = <<>>
  /\ boundaries = <<>>
  /\ snapResult = <<>>
  /\ decInput = 0
  /\ decWaypoints = <<>>
  /\ decRequests = 0
  /\ decPc = "done"
  /\ route = <<>>
  /\ svgBounds = NoBox
  /\ svgNormalizedPoints = <<>>
  /\ isSnappingRoads = FALSE
  /\ isProcessingImage = FALSE
  /\ alerts = <<>>
  /\ ops = <<>>
  /\ finished = <<>>
  /\ escaped = FALSE
  /\ snapToRoads = FALSE
  /\ isRouting = FALSE
  /\ clicks = <<>>
  /\ isProcessingSVG = FALSE
  /\ drawnLines = <<>>
  /\ undoStack = <<>>
  /\ redoStack = <<>>
  /\ drawLog = <<>>

SpecConvert == ConvInit /\ [][ConvNext]_vars

\* C12: every conversion site maps (u, v) to (north - v * height,
\* west + u * width): (0, 0) goes to the north-west corner and, of two
\* points, the one with the larger v gets the smaller latitude.
UnitPoint(g) ==
  IF callee = "imageToRoute" THEN <<Norm(g[1], CanvasSize), Norm(g[2], CanvasSize)>>
  ELSE Normalized(g)

InvertedY(uv, b) ==
  <<RSub(b.north, RMul(uv[2], Height(b))), RAdd(b.west, RMul(uv[1], Width(b)))>>

C12_EverySiteInvertsY ==
  callee \in {"normalizedToMapCoords", "tracePNGAndSnap", "svgToMapCoordinates", "imageToRoute"}
    => /\ Len(result) = Len(args.points)
       /\ \A i \in 1 .. Len(result) :
            /\ result[i] = InvertedY(UnitPoint(args.points[i]), args.bounds)
            /\ args.points[i] = <<0, 0>> => result[i] = <<args.bounds.north, args.bounds.west>>
       /\ \A i, j \in 1 .. Len(result) :
            args.points[i][2] > args.points[j][2] => RLt(result[i][1], result[j][1])

(***************************************************************************)
(* SVG sampler: parseSVGPath and shapeToPoints.                            *)
(***************************************************************************)
\* a parsed viewBox attribute is the four numbers <<vb[0], vb[1], vb[2], vb[3]>>;
\* NoViewBox is a missing attribute
NoViewBox == <<>>
DefaultViewBox == <<0, 0, 100, 100>>

ViewBoxes ==
  {NoViewBox} \cup {<<x, y, w, h>> : x \in {0, 2, -2}, y \in {0, 2}, w \in {-2, 0, 4}, h \in {0, 4}}

\* path commands with their parsed coords, straight-line commands only
Commands ==
  {[command |-> "M", coords |-> <<2, 2>>], [command |-> "M", coords |-> <<4, 6>>],
   [command |-> "L", coords |-> <<3, 3>>], [command |-> "l", coords |-> <<1, 1>>],
   [command |-> "H", coords |-> <<4>>], [command |-> "v", coords |-> <<1>>],
   [command |-> "Z", coords |-> <<>>]}

\* shape elements with their parsed attributes
Shapes ==
  {[tagName |-> "rect", x |-> 2, y |-> 2, width |-> 2, height |-> 4],
   [tagName |-> "line", x1 |-> 2, y1 |-> 3, x2 |-> 6, y2 |-> 6],
   [tagName |-> "polygon", points |-> <<2, 2, 4, 2, 4, 6>>],
   [tagName |-> "polyline", points |-> <<3, 3, 5>>]}

\* the state of the commands.forEach loop
PathStart == [points |-> <<>>, currentX |-> 0, currentY |-> 0, startX |-> 0, startY |-> 0]

\* one iteration of commands.forEach; resetOnClose tells the two versions
\* of the Z branch apart
PathStep(st, cmd, resetOnClose) ==
  LET c == cmd.command
      co == cmd.coords
  IN  CASE c \in {"M", "m"} ->
             LET x == IF c = "m" THEN st.currentX + co[1] ELSE co[1]
                 y == IF c = "m" THEN st.currentY + co[2] ELSE co[2]
             IN  [points |-> Append(st.points, <<x, y>>),
                  currentX |-> x, currentY |-> y, startX |-> x, startY |-> y]
        [] c \in {"L", "l"} ->
             LET x == IF c = "l" THEN st.currentX + co[1] ELSE co[1]
                 y == IF c = "l" THEN st.currentY + co[2] ELSE co[2]
             IN  [st EXCEPT !.points = Append(@, <<x, y>>), !.currentX = x, !.currentY = y]
        [] c \in {"H", "h"} ->
             LET x == IF c = "h" THEN st.currentX + co[1] ELSE co[1]
             IN  [st EXCEPT !.points = Append(@, <<x, st.currentY>>), !.currentX = x]
        [] c \in {"V", "v"} ->
             LET y == IF c = "v" THEN st.currentY + co[1] ELSE co[1]
             IN  [st EXCEPT !.points = Append(@, <<st.currentX, y>>), !.currentY = y]
        [] OTHER ->
             LET closed == IF Len(st.points) > 0
                              /\ (st.currentX # st.startX \/ st.currentY # st.startY)
                           THEN Append(st.points, <<st.startX, st.startY>>)
                           ELSE st.points
             IN  IF resetOnClose
                 THEN [st EXCEPT !.points = closed, !.currentX = st.startX, !.currentY = st.startY]
                 ELSE [st EXCEPT !.points = closed]

RECURSIVE PathLoop(_, _, _)
PathLoop(st, commands, resetOnClose) ==
  IF commands = <<>> THEN st
  ELSE PathLoop(PathStep(st, Head(commands), resetOnClose), Tail(commands), resetOnClose)

PathPoints(commands, resetOnClose) == PathLoop(PathStart, commands, resetOnClose).points

\* viewBox ? parsed numbers : [0, 0, 100, 100]
Vb(viewBox) == IF viewBox = NoViewBox THEN DefaultViewBox ELSE viewBox

\* points.map(p => [(p[0] - vb[0]) / svgWidth, (p[1] - vb[1]) / svgHeight])
NormalizePoints(points, vb, svgWidth, svgHeight) ==
  [i \in 1 .. Len(points) |->
     <<Norm(points[i][1] - vb[1], svgWidth), Norm(points[i][2] - vb[2], svgHeight)>>]

RawPoints(points) == [i \in 1 .. Len(points) |-> <<Rat(points[i][1]), Rat(points[i][2])>>]

\* parseSVGPath of the overlay version of the parent
parseSVGPath(pathData, viewBox) ==
  LET vb == Vb(viewBox)
      svgWidth == vb[3] - vb[1]
      svgHeight == vb[4] - vb[2]
  IN  IF svgWidth <= 0 \/ svgHeight <= 0 THEN <<>>
      ELSE NormalizePoints(PathPoints(pathData, TRUE), vb, svgWidth, svgHeight)

\* parseSVGPath of src/App.jsx
parseSVGPathApp(pathData, viewBox) ==
  LET vb == Vb(viewBox)
      svgWidth == vb[3] - vb[1]
      svgHeight == vb[4] - vb[2]
      points == PathPoints(pathData, FALSE)
  IN  IF svgWidth > 0 /\ svgHeight > 0
      THEN NormalizePoints(points, vb, svgWidth, svgHeight)
      ELSE RawPoints(points)

\* the points a shape element contributes before normalization
ShapePoints(element) ==
  CASE element.tagName = "rect" ->
         LET x == element.x
             y == element.y
             w == element.width
             h == element.height
         IN  <<<<x, y>>, <<x + w, y>>, <<x + w, y + h>>, <<x, y + h>>, <<x, y>>>>
    [] element.tagName = "line" ->
         <<<<element.x1, element.y1>>, <<element.x2, element.y2>>>>
    [] OTHER ->
         LET coords == element.points
             pts == [k \in 1 .. (Len(coords) \div 2) |-> <<coords[2 * k - 1], coords[2 * k]>>]
         IN  IF element.tagName = "polygon" /\ Len(pts) > 0
             THEN Append(pts, pts[1])
             ELSE pts

\* a || 100
OrHundred(a) == IF a = 0 THEN 100 ELSE a

shapeToPoints(element, viewBox) ==
  LET vb == Vb(viewBox)
      svgWidth == OrHundred(vb[3] - vb[1])
      svgHeight == OrHundred(vb[4] - vb[2])
  IN  NormalizePoints(ShapePoints(element), vb, svgWidth, svgHeight)

\* shapeToPoints of src/App.jsx
shapeToPointsApp(element, viewBox) ==
  LET vb == Vb(viewBox)
      svgWidth == OrHundred(vb[3] - vb[1])
      svgHeight == OrHundred(vb[4] - vb[2])
      points == ShapePoints(element)
  IN  IF Len(points) > 0 /\ svgWidth > 0 /\ svgHeight > 0
      THEN NormalizePoints(points, vb, svgWidth, svgHeight)
      ELSE <<>>

SamplePath == Call("parseSVGPath", parseSVGPath(args.pathData, args.viewBox))
SamplePathApp == Call("parseSVGPathApp", parseSVGPathApp(args.pathData, args.viewBox))
SampleShape == Call("shapeToPoints", shapeToPoints(args.element, args.viewBox))
SampleShapeApp == Call("shapeToPointsApp", shapeToPointsApp(args.element, args.viewBox))

SampleNext == SamplePath \/ SamplePathApp \/ SampleShape \/ SampleShapeApp

SampleInit ==
  /\ callee = "none"
  /\ args \in {[viewBox |-> v, pathData |-> d, element |-> e] :
                 v \in ViewBoxes, d \in SeqsUpTo(Commands, MaxCommands), e \in Shapes}
  /\ result = <<>>
  /\ aspectRatio = NoRatio
  /\ leafletElement = FALSE
  /\ bounds = InitialBox(NoRatio)
  /\ overlayBounds = bounds
  /\ markerPos = MarkerPositions(bounds)
  /\ dragStartBounds = [h \in Handles |-> NoBox]
  /\ isDraggingImage = FALSE
  /\ dragStartPos = NoBox
  /\ active = NoHandle
  /\ gestures = 0
  /\ ptr = NoPos
  /\ candidate = NoBox
  /\ accepted = FALSE
  /\ lastEvent = "none"
  /\ lastHandle = NoHandle
  /\ gestureStartBox = NoBox
  /\ boundsChangeCalls = 0
  /\ resnaps = 0
  /\ mapPoints = <<>>
  /\ waypoints = <<>>
  /\ segIndex = 0
  /\ snappedPoints = <<>>
  /\ snapPc = "idle"
  /\ inflight = {}
  /\ issued = <<>>
  /\ responses = <<>>
  /\ boundaries = <<>>
  /\ snapResult = <<>>
  /\ decInput = 0
  /\ decWaypoints = <<>>
  /\ decRequests = 0
  /\ decPc = "done"
  /\ route = <<>>
  /\ svgBounds = NoBox
  /\ svgNormalizedPoints = <<>>
  /\ isSnappingRoads = FALSE
  /\ isProcessingImage = FALSE
  /\ alerts = <<>>
  /\ ops = <<>>
  /\ finished = <<>>
  /\ escaped = FALSE
  /\ snapToRoads = FALSE
  /\ isRouting = FALSE
  /\ clicks = <<>>
  /\ isProcessingSVG = FALSE
  /\ drawnLines = <<>>
  /\ undoStack = <<>>
  /\ redoStack = <<>>
  /\ drawLog = <<>>

SpecSample == SampleInit /\ [][SampleNext]_vars

Samplers == {"parseSVGPath", "parseSVGPathApp", "shapeToPoints", "shapeToPointsApp"}

\* the points the called sampler extracted, before normalization
Extracted ==
  CASE callee = "parseSVGPath" -> PathPoints(args.pathData, TRUE)
    [] callee = "parseSVGPathApp" -> PathPoints(args.pathData, FALSE)
    [] OTHER -> ShapePoints(args.element)

\* the viewBox read as (x-min, y-min, width, height)
ViewBoxWidth == Vb(args.viewBox)[3]
ViewBoxHeight == Vb(args.viewBox)[4]
InsideViewBox(p) ==
  LET vb == Vb(args.viewBox)
  IN  /\ vb[1] <= p[1] /\ p[1] <= vb[1] + vb[3]
      /\ vb[2] <= p[2] /\ p[2] <= vb[2] + vb[4]

InUnitSquare(q) ==
  /\ RLe(Rat(0), q[1]) /\ RLe(q[1], Rat(1))
  /\ RLe(Rat(0), q[2]) /\ RLe(q[2], Rat(1))

Denormalize(q) ==
  LET vb == Vb(args.viewBox)
  IN  <<RAdd(Rat(vb[1]), RMul(q[1], Rat(vb[3]))), RAdd(Rat(vb[2]), RMul(q[2], Rat(vb[4])))>>

\* C13: for a viewBox (x-min, y-min, width, height) with positive width
\* and height every extracted point p is normalized to
\* ((p.x - x-min) / width, (p.y - y-min) / height): points inside the
\* viewBox land in the unit square and map back to p.
C13_NormalizeByViewBoxSize ==
  (callee \in Samplers /\ ViewBoxWidth > 0 /\ ViewBoxHeight > 0)
    => LET vb == Vb(args.viewBox)
           pts == Extracted
       IN  /\ Len(result) = Len(pts)
           /\ \A i \in 1 .. Len(pts) :
                /\ result[i] = <<Norm(pts[i][1] - vb[1], vb[3]), Norm(pts[i][2] - vb[2], vb[4])>>
                /\ InsideViewBox(pts[i]) => InUnitSquare(result[i])
                /\ Denormalize(result[i]) = <<Rat(pts[i][1]), Rat(pts[i][2])>>

\* C14: for a viewBox whose width or height is zero or negative the path
\* sampler and the shape sampler return an empty point list.
C14_DegenerateViewBoxEmpty ==
  (callee \in Samplers /\ (ViewBoxWidth <= 0 \/ ViewBoxHeight <= 0))
    => result = <<>>

(***************************************************************************)
(* The parent's Route: re-snapping after the overlay's bounds change.      *)
(***************************************************************************)
\* snapToRoadsOSRM as a function of the responses of the pairs, in order
RECURSIVE SnapLoop(_, _, _, _)
SnapLoop(snapped, i, wps, resps) ==
  IF i >= Len(wps) - 1 THEN snapped
  ELSE SnapLoop(Stitch(snapped, i, wps, getOSRMRoute(wps[i + 1], wps[i + 2], resps[i + 1])),
                i + 1, wps, resps)

SnapAll(pts, resps) ==
  IF Len(pts) < 2 THEN pts ELSE SnapLoop(<<>>, 0, Decimate(pts), resps)

\* a point on a road, off the straight line between two waypoints
RoadPoint == <<Rat(9), Rat(9)>>

\* boxes the overlay can commit
CommittedBoxes == ConvBoxes \cup {InitialBox(<<4, 3>>)}

\* what the routing service can answer for the pair (start, end)
PairResponses(start, end) ==
  {[kind |-> "throw", path |-> <<>>], [kind |-> "ok", path |-> <<>>],
   [kind |-> "ok", path |-> <<start, end>>], [kind |-> "ok", path |-> <<start, RoadPoint, end>>]}

\* the responses a whole call can meet
CallResponses(pts) ==
  LET wps == Decimate(pts)
  IN  {r \in [1 .. Len(wps) - 1 -> UNION {PairResponses(wps[j], wps[j + 1]) : j \in 1 .. Len(wps) - 1}] :
         \A j \in 1 .. Len(wps) - 1 : r[j] \in PairResponses(wps[j], wps[j + 1])}

\* normalized shapes an upload can have left in svgNormalizedPoints
NormalizedShapes ==
  {<<>>, <<<<Rat(0), Rat(0)>>>>, <<<<Rat(0), Rat(0)>>, <<Rat(1), Rat(1)>>>>,
   <<<<Rat(0), Rat(0)>>, <<Rat(1), Rat(0)>>, <<Rat(1), Rat(1)>>>>}

\* setPoints(snappedPoints) of the completing operation, guarded so that
\* only the latest operation writes
setPointsIfLatest(k, snapped) == IF k = Len(ops) THEN snapped ELSE route

\* setPoints(snapped) of the completing operation k
setPoints(k, snapped) == snapped

\* onBoundsChange of the SVG overlay: handleSVGBoundsChange, which runs
\* snapSVGToRoads up to its await
handleSVGBoundsChange(newBounds) ==
  /\ Len(ops) < MaxSnaps
  /\ svgBounds' = newBounds
  /\ IF Len(svgNormalizedPoints) = 0
     THEN UNCHANGED <<isSnappingRoads, ops>>
     ELSE IF Len(normalizedToMapCoords(svgNormalizedPoints, newBounds)) < 2
          THEN /\ isSnappingRoads' = FALSE
               /\ UNCHANGED ops
          ELSE /\ isSnappingRoads' = TRUE
               /\ ops' = Append(ops, [kind |-> "snap", bounds |-> newBounds,
                                      mapPoints |-> normalizedToMapCoords(svgNormalizedPoints, newBounds),
                                      pc |-> "await", result |-> <<>>])
  /\ UNCHANGED <<route, svgNormalizedPoints, isProcessingImage, alerts, finished, escaped>>
  /\ UNCHANGED <<overlayVars, snapVars, decVars, pageVars, drawVars, callVars>>

\* snapToRoadsOSRM of operation k resolves: setPoints, then finally
snapSVGToRoadsResumes(k, resps) ==
  /\ ops[k].kind = "snap"
  /\ ops[k].pc = "await"
  /\ LET snapped == SnapAll(ops[k].mapPoints, resps)
     IN  /\ route' = setPoints(k, snapped)
         /\ ops' = [ops EXCEPT ![k].pc = "done", ![k].result = snapped]
  /\ isSnappingRoads' = FALSE
  /\ finished' = Append(finished, k)
  /\ UNCHANGED <<svgBounds, svgNormalizedPoints, isProcessingImage, alerts, escaped>>
  /\ UNCHANGED <<overlayVars, snapVars, decVars, pageVars, drawVars, callVars>>

ResnapNext ==
  \/ \E b \in CommittedBoxes : handleSVGBoundsChange(b)
  \/ \E k \in 1 .. Len(ops) : \E resps \in CallResponses(ops[k].mapPoints) :
       snapSVGToRoadsResumes(k, resps)

ResnapInit ==
  /\ route = <<>>
  /\ svgBounds = InitialBox(NoRatio)
  /\ svgNormalizedPoints \in NormalizedShapes
  /\ isSnappingRoads = FALSE
  /\ isProcessingImage = FALSE
  /\ alerts = <<>>
  /\ ops = <<>>
  /\ finished = <<>>
  /\ escaped = FALSE
  /\ aspectRatio = NoRatio
  /\ leafletElement = FALSE
  /\ bounds = InitialBox(NoRatio)
  /\ overlayBounds = bounds
  /\ markerPos = MarkerPositions(bounds)
  /\ dragStartBounds = [h \in Handles |-> NoBox]
  /\ isDraggingImage = FALSE
  /\ dragStartPos = NoBox
  /\ active = NoHandle
  /\ gestures = 0
  /\ ptr = NoPos
  /\ candidate = NoBox
  /\ accepted = FALSE
  /\ lastEvent = "none"
  /\ lastHandle = NoHandle
  /\ gestureStartBox = NoBox
  /\ boundsChangeCalls = 0
  /\ resnaps = 0
  /\ mapPoints = <<>>
  /\ waypoints = <<>>
  /\ segIndex = 0
  /\ snappedPoints = <<>>
  /\ snapPc = "idle"
  /\ inflight = {}
  /\ issued = <<>>
  /\ responses = <<>>
  /\ boundaries = <<>>
  /\ snapResult = <<>>
  /\ decInput = 0
  /\ decWaypoints = <<>>
  /\ decRequests = 0
  /\ decPc = "done"
  /\ callee = "none"
  /\ args = <<>>
  /\ result = <<>>
  /\ snapToRoads = FALSE
  /\ isRouting = FALSE
  /\ clicks = <<>>
  /\ isProcessingSVG = FALSE
  /\ drawnLines = <<>>
  /\ undoStack = <<>>
  /\ redoStack = <<>>
  /\ drawLog = <<>>

SpecResnap == ResnapInit /\ [][ResnapNext]_vars

\* C15: operations triggered while an earlier one is in flight all run to
\* completion, none is cancelled or skipped, and the Route is the result of
\* whichever completed last, computed from that operation's own bounds even
\* when newer bounds have been committed since.
C15_LastCompletionWins ==
  /\ \A k \in 1 .. Len(ops) :
       \/ ops[k].pc = "await" /\ \A j \in 1 .. Len(finished) : finished[j] # k
       \/ /\ ops[k].pc = "done"
          /\ \E resps \in CallResponses(ops[k].mapPoints) :
               ops[k].result =
                 SnapAll(normalizedToMapCoords(svgNormalizedPoints, ops[k].bounds), resps)
  /\ finished # <<>> => route = ops[Last(finished)].result
  /\ finished = <<>> => route = <<>>

\* the operation triggered first completes last: the Route is the one
\* computed from the older bounds, not from the bounds now committed
C15_Witness ==
  /\ finished = <<2, 1>>
  /\ ops[1].bounds # ops[2].bounds
  /\ svgBounds = ops[2].bounds
  /\ route = ops[1].result
  /\ route # ops[2].result

(***************************************************************************)
(* Near-duplicate pruning of a route (optimizeRoute).                      *)
(***************************************************************************)
\* 0.0001 degrees, in the unit of the coordinates
minDistance == Rat(Epsilon)

\* Math.sqrt(dx^2 + dy^2) > d, for d >= 0
DistExceeds(p, q, d) ==
  LET dx == RSub(p[1], q[1])
      dy == RSub(p[2], q[2])
  IN  RLt(RMul(d, d), RAdd(RMul(dx, dx), RMul(dy, dy)))

\* the loop, comparing with the previous input point instead of the last
\* kept one
RECURSIVE PruneFromPrevious(_, _, _)
PruneFromPrevious(optimized, pts, i) ==
  IF i > Len(pts) THEN optimized
  ELSE PruneFromPrevious(IF DistExceeds(pts[i], pts[i - 1], minDistance)
                         THEN Append(optimized, pts[i]) ELSE optimized, pts, i + 1)

\* the loop from index i on, with the points kept so far
RECURSIVE PruneLoop(_, _, _)
PruneLoop(optimized, pts, i) ==
  IF i > Len(pts) THEN optimized
  ELSE PruneLoop(IF DistExceeds(pts[i], optimized[Len(optimized)], minDistance)
                 THEN Append(optimized, pts[i]) ELSE optimized, pts, i + 1)

optimizeRoute(pts) ==
  IF Len(pts) < 2 THEN pts ELSE PruneLoop(<<pts[1]>>, pts, 2)

\* raw route points, in units of 0.0001 degrees
RoutePointSet == {<<Rat(x), Rat(y)>> : x \in 0 .. 2, y \in 0 .. 1}

\* optimizeRoute(points) of the standalone page
OptimizeRoute == Call("optimizeRoute", optimizeRoute(args.points))

\* the same pass inside imageToRoute, which runs it when route.length > 1
OptimizeInImageToRoute ==
  /\ Len(args.points) > 1
  /\ Call("imageToRoute.optimized", PruneLoop(<<args.points[1]>>, args.points, 2))

PruneNext == OptimizeRoute \/ OptimizeInImageToRoute

PruneInit ==
  /\ callee = "none"
  /\ args \in {[points |-> q] : q \in SeqsUpTo(RoutePointSet, MaxRoute)}
  /\ result = <<>>
  /\ aspectRatio = NoRatio
  /\ leafletElement = FALSE
  /\ bounds = InitialBox(NoRatio)
  /\ overlayBounds = bounds
  /\ markerPos = MarkerPositions(bounds)
  /\ dragStartBounds = [h \in Handles |-> NoBox]
  /\ isDraggingImage = FALSE
  /\ dragStartPos = NoBox
  /\ active = NoHandle
  /\ gestures = 0
  /\ ptr = NoPos
  /\ candidate = NoBox
  /\ accepted = FALSE
  /\ lastEvent = "none"
  /\ lastHandle = NoHandle
  /\ gestureStartBox = NoBox
  /\ boundsChangeCalls = 0
  /\ resnaps = 0
  /\ mapPoints = <<>>
  /\ waypoints = <<>>
  /\ segIndex = 0
  /\ snappedPoints = <<>>
  /\ snapPc = "idle"
  /\ inflight = {}
  /\ issued = <<>>
  /\ responses = <<>>
  /\ boundaries = <<>>
  /\ snapResult = <<>>
  /\ decInput = 0
  /\ decWaypoints = <<>>
  /\ decRequests = 0
  /\ decPc = "done"
  /\ route = <<>>
  /\ svgBounds = NoBox
  /\ svgNormalizedPoints = <<>>
  /\ isSnappingRoads = FALSE
  /\ isProcessingImage = FALSE
  /\ alerts = <<>>
  /\ ops = <<>>
  /\ finished = <<>>
  /\ escaped = FALSE
  /\ snapToRoads = FALSE
  /\ isRouting = FALSE
  /\ clicks = <<>>
  /\ isProcessingSVG = FALSE
  /\ drawnLines = <<>>
  /\ undoStack = <<>>
  /\ redoStack = <<>>
  /\ drawLog = <<>>

SpecPrune == PruneInit /\ [][PruneNext]_vars

\* C19: pruning keeps the first point and keeps a later point exactly when
\* it is more than minDistance from the last kept point; the output is a
\* subsequence of the input whose consecutive points are more than
\* minDistance apart.
RECURSIVE Pick(_, _, _)
Pick(pts, S, i) ==
  IF i > Len(pts) THEN <<>>
  ELSE (IF i \in S THEN <<pts[i]>> ELSE <<>>) \o Pick(pts, S, i + 1)

MaxOf(S) == CHOOSE m \in S : \A s \in S : s <= m

C19_PruneAgainstLastKept ==
  callee \in {"optimizeRoute", "imageToRoute.optimized"} =>
    LET pts == args.points
        n == Len(pts)
    IN  /\ \E S \in SUBSET (1 .. n) :
             /\ n > 0 => 1 \in S
             /\ \A i \in 2 .. n :
                  i \in S <=> DistExceeds(pts[i], pts[MaxOf({s \in S : s < i})], minDistance)
             /\ result = Pick(pts, S, 1)
        /\ \A j \in 1 .. Len(result) - 1 : DistExceeds(result[j + 1], result[j], minDistance)

\* a point is dropped for being close to the last kept point, and a later
\* one is kept although it is close to the dropped one
C19_Witness ==
  /\ callee = "imageToRoute.optimized"
  /\ Len(args.points) = 3
  /\ ~DistExceeds(args.points[2], args.points[1], minDistance)
  /\ ~DistExceeds(args.points[3], args.points[2], minDistance)
  /\ result = <<args.points[1], args.points[3]>>

(***************************************************************************)
(* Scaling a route to a target distance.                                   *)
(***************************************************************************)
\* Coordinates are in units of 0.0001 degrees, and distances in the length
\* of that much of a great circle (R * pi / 180 / 10000 miles).  For two
\* points on
\* the equator, or two points of equal longitude, the haversine formula is
\* a = sin^2(delta / 2), c = 2 * atan2(|sin(delta / 2)|, |cos(delta / 2)|),
\* which is the angle delta folded into [0, 180].
UnitsPerDegree == 10000
FullTurn == 360 * UnitsPerDegree

RFloorDiv(a, n) == a[1] \div (a[2] * n)

FoldAngle(delta) ==
  LET d == IF RLt(delta, Rat(0)) THEN RSub(Rat(0), delta) ELSE delta
      r == RSub(d, Rat(FullTurn * RFloorDiv(d, FullTurn)))
  IN  IF RLe(RAdd(r, r), Rat(FullTurn)) THEN r ELSE RSub(Rat(FullTurn), r)

\* for two points of equal longitude, or else two points on the equator
calculateDistance(point1, point2) ==
  IF point1[2] = point2[2]
  THEN FoldAngle(RSub(point2[1], point1[1]))
  ELSE FoldAngle(RSub(point2[2], point1[2]))

RECURSIVE calculateRouteDistance(_)
calculateRouteDistance(routePoints) ==
  IF Len(routePoints) < 2 THEN Rat(0)
  ELSE RAdd(calculateRouteDistance(SubSeq(routePoints, 1, Len(routePoints) - 1)),
            calculateDistance(routePoints[Len(routePoints) - 1], routePoints[Len(routePoints)]))

\* mapPoints.reduce((sum, p) => sum + p[c], 0) / mapPoints.length
RECURSIVE SumCoord(_, _)
SumCoord(pts, c) ==
  IF pts = <<>> THEN Rat(0) ELSE RAdd(SumCoord(Tail(pts), c), Head(pts)[c])

MeanCoord(pts, c) == RDiv(SumCoord(pts, c), Rat(Len(pts)))

\* the scaling step shared by handleSVGUpload and imageToRoute
ScaleToDistance(pts, targetDistance) ==
  LET actualDistance == calculateRouteDistance(pts)
  IN  IF RLt(Rat(0), actualDistance) /\ RLt(Rat(0), targetDistance)
      THEN LET scaleFactor == RDiv(targetDistance, actualDistance)
               centerLat == MeanCoord(pts, 1)
               centerLng == MeanCoord(pts, 2)
           IN  [i \in 1 .. Len(pts) |->
                  <<RAdd(centerLat, RMul(RSub(pts[i][1], centerLat), scaleFactor)),
                    RAdd(centerLng, RMul(RSub(pts[i][2], centerLng), scaleFactor))>>]
      ELSE pts

\* routes along the equator and routes along the meridian of longitude 0
EquatorPoints == {<<Rat(0), Rat(g * UnitsPerDegree)>> : g \in {0, 60, 100}}
MeridianPoints == {<<Rat(t * UnitsPerDegree), Rat(0)>> : t \in {0, 30, 60}}
AxisRoutes ==
  (SeqsUpTo(EquatorPoints, MaxRoute) \cup SeqsUpTo(MeridianPoints, MaxRoute)) \ {<<>>}

TargetDistances == {Rat(t * UnitsPerDegree) : t \in {0, 10, 100, 300}}

ScaleInSVGUpload == Call("handleSVGUpload.scaled", ScaleToDistance(args.points, args.target))
ScaleInImageToRoute == Call("imageToRoute.scaled", ScaleToDistance(args.points, args.target))

ScaleNext == ScaleInSVGUpload \/ ScaleInImageToRoute

ScaleInit ==
  /\ callee = "none"
  /\ args \in {[points |-> q, target |-> d] : q \in AxisRoutes, d \in TargetDistances}
  /\ result = <<>>
  /\ aspectRatio = NoRatio
  /\ leafletElement = FALSE
  /\ bounds = InitialBox(NoRatio)
  /\ overlayBounds = bounds
  /\ markerPos = MarkerPositions(bounds)
  /\ dragStartBounds = [h \in Handles |-> NoBox]
  /\ isDraggingImage = FALSE
  /\ dragStartPos = NoBox
  /\ active = NoHandle
  /\ gestures = 0
  /\ ptr = NoPos
  /\ candidate = NoBox
  /\ accepted = FALSE
  /\ lastEvent = "none"
  /\ lastHandle = NoHandle
  /\ gestureStartBox = NoBox
  /\ boundsChangeCalls = 0
  /\ resnaps = 0
  /\ mapPoints = <<>>
  /\ waypoints = <<>>
  /\ segIndex = 0
  /\ snappedPoints = <<>>
  /\ snapPc = "idle"
  /\ inflight = {}
  /\ issued = <<>>
  /\ responses = <<>>
  /\ boundaries = <<>>
  /\ snapResult = <<>>
  /\ decInput = 0
  /\ decWaypoints = <<>>
  /\ decRequests = 0
  /\ decPc = "done"
  /\ route = <<>>
  /\ svgBounds = NoBox
  /\ svgNormalizedPoints = <<>>
  /\ isSnappingRoads = FALSE
  /\ isProcessingImage = FALSE
  /\ alerts = <<>>
  /\ ops = <<>>
  /\ finished = <<>>
  /\ escaped = FALSE
  /\ snapToRoads = FALSE
  /\ isRouting = FALSE
  /\ clicks = <<>>
  /\ isProcessingSVG = FALSE
  /\ drawnLines = <<>>
  /\ undoStack = <<>>
  /\ redoStack = <<>>
  /\ drawLog = <<>>

SpecScale == ScaleInit /\ [][ScaleNext]_vars

\* C20: a route of positive length scaled to a positive target distance d
\* has length d within 0.1% and the same centroid; a route of length 0 is
\* returned unscaled.
WithinTolerance(len, d) ==
  LET diff == IF RLt(len, d) THEN RSub(d, len) ELSE RSub(len, d)
  IN  RLe(diff, RDiv(d, Rat(1000)))

C20_ScalingExact ==
  callee \in {"handleSVGUpload.scaled", "imageToRoute.scaled"} =>
    LET actualDistance == calculateRouteDistance(args.points)
    IN  /\ (RLt(Rat(0), actualDistance) /\ RLt(Rat(0), args.target))
             => /\ WithinTolerance(calculateRouteDistance(result), args.target)
                /\ MeanCoord(result, 1) = MeanCoord(args.points, 1)
                /\ MeanCoord(result, 2) = MeanCoord(args.points, 2)
        /\ actualDistance = Rat(0) => result = args.points

(***************************************************************************)
(* Properties of the edge, centre and image-body gestures (SpecOverlay).   *)
(***************************************************************************)
\* the snapshot with the one side of edge handle h set to the pointer's
\* coordinate on that side's axis
OneSideMoved(h, sb, pos) ==
  CASE h = 4 -> [sb EXCEPT !.west = pos.lng]
    [] h = 5 -> [sb EXCEPT !.east = pos.lng]
    [] h = 6 -> [sb EXCEPT !.south = pos.lat]
    [] OTHER -> [sb EXCEPT !.north = pos.lat]

\* C17: an accepted edge-handle candidate is the snapshot with exactly one
\* side set to the pointer's longitude (west, east) or latitude (south,
\* north); it is the box displayed on a move and committed at gesture end.
C17_EdgeMovesOneSide ==
  (lastHandle \in Edges /\ (GestureMoved \/ GestureEnded) /\ accepted)
    => /\ candidate = OneSideMoved(lastHandle, gestureStartBox, ptr)
       /\ GestureMoved => HandleBox = candidate
       /\ GestureEnded => bounds = candidate

C17_Witness ==
  /\ lastHandle = 6
  /\ GestureEnded
  /\ accepted
  /\ gestures = 2
  /\ bounds = candidate
  /\ bounds.south # gestureStartBox.south
  /\ gestureStartBox # InitialBox(aspectRatio)

SameSize(a, b) == Height(a) = Height(b) /\ Width(a) = Width(b)

\* C18: a centre-handle gesture commits a box centred on the pointer with
\* the snapshot's width and height, and centre-handle and image-body
\* drags never change the width or height of the box they display or
\* commit.
C18_RigidTranslation ==
  /\ (lastHandle = CenterHandle /\ GestureEnded /\ accepted)
       => /\ bounds = candidate
          /\ CenterLat(bounds) = ptr.lat
          /\ CenterLng(bounds) = ptr.lng
          /\ SameSize(bounds, gestureStartBox)
  /\ (lastHandle \in {CenterHandle, ImageBody} /\ (GestureMoved \/ GestureEnded) /\ accepted)
       => /\ SameSize(candidate, gestureStartBox)
          /\ SameSize(HandleBox, gestureStartBox)
          /\ SameSize(bounds, gestureStartBox)

\* a centre drag following an earlier committed gesture, ended away from
\* where it started
C18_Witness ==
  /\ lastHandle = CenterHandle
  /\ GestureEnded
  /\ accepted
  /\ gestures = 2
  /\ bounds # gestureStartBox
  /\ gestureStartBox # InitialBox(aspectRatio)
  /\ CenterLat(bounds) = ptr.lat

(***************************************************************************)
(* Shape extraction from an image: imageToRoute and tracePNGAndSnap.       *)
(***************************************************************************)
\* ---- imageToRoute: the canvas is one pixel wide and ImageHeight tall;
\* an image is its column of grayscale values
GrayValues == {0, 255}
Images == [0 .. ImageHeight - 1 -> GrayValues]

\* the k-th smallest value (k from 0) of the grayscale array
SortedAt(gray, k) ==
  CHOOSE v \in {gray[y] : y \in DOMAIN gray} :
    /\ Cardinality({y \in DOMAIN gray : gray[y] < v}) <= k
    /\ Cardinality({y \in DOMAIN gray : gray[y] <= v}) > k

\* sorted[Math.floor(sorted.length * 0.25)]
DarkThreshold(gray) == SortedAt(gray, ImageHeight \div 4)

\* the pixels (x, y) pushed by the sampling loop, top to bottom
RECURSIVE DarkPixels(_, _, _)
DarkPixels(gray, threshold, y) ==
  IF y >= ImageHeight THEN <<>>
  ELSE (IF gray[y] < threshold THEN <<<<0, y>>>> ELSE <<>>) \o DarkPixels(gray, threshold, y + 1)

\* the part of the map in view, NoBox while mapRef.current is not set
MapView == Box(Rat(-360), Rat(-360), Rat(360), Rat(360))

imageToRoute(gray, desiredMiles, view) ==
  IF view = NoBox THEN <<>>
  ELSE LET pixels == DarkPixels(gray, DarkThreshold(gray), 0)
           sampled == imageToRoutePixels(pixels, view, 1, ImageHeight)
       IN  IF Len(sampled) > 1
           THEN ScaleToDistance(PruneLoop(<<sampled[1]>>, sampled, 2), desiredMiles)
           ELSE <<>>

\* ---- tracePNGAndSnap, from the edge map detectEdges returns: the
\* magnitude of each pixel of an EdgeWidth x EdgeHeight canvas, row by row
EdgeWidth == 2
EdgeHeight == 2
EdgeValues == {0, 100}
EdgeMaps == [0 .. EdgeWidth * EdgeHeight - 1 -> EdgeValues]

\* the k-th largest (k from 0) of the positive edge values
DescendingAt(edges, k) ==
  CHOOSE v \in {edges[i] : i \in DOMAIN edges} :
    /\ v > 0
    /\ Cardinality({i \in DOMAIN edges : edges[i] > v}) <= k
    /\ Cardinality({i \in DOMAIN edges : edges[i] >= v}) > k

\* edgeValues[Math.floor(edgeValues.length * 0.1)], or 50 without edges
EdgeThreshold(edges) ==
  LET n == Cardinality({i \in DOMAIN edges : edges[i] > 0})
  IN  IF n > 0 THEN Rat(DescendingAt(edges, n \div 10)) ELSE Rat(50)

IsEdge(edges, x, y, threshold) == RLt(threshold, Rat(edges[y * EdgeWidth + x]))

\* 8-directional neighbour offsets, clockwise from right
DirX == <<1, 1, 0, -1, -1, -1, 0, 1>>
DirY == <<0, 1, 1, 1, 0, -1, -1, -1>>
maxPoints == 5000

\* first edge pixel from the top-left, <<-1, -1>> when there is none
ContourStart(edges, threshold) ==
  LET hits == {i \in DOMAIN edges : IsEdge(edges, i % EdgeWidth, i \div EdgeWidth, threshold)}
  IN  IF hits = {} THEN <<-1, -1>>
      ELSE LET first == CHOOSE i \in hits : \A j \in hits : i <= j
           IN  <<first % EdgeWidth, first \div EdgeWidth>>

\* the do-while loop of traceContour, standing at (x, y)
RECURSIVE TraceLoop(_, _, _, _, _, _, _, _)
TraceLoop(edges, threshold, start, x, y, lastDir, visited, contourPoints) ==
  LET fresh == <<x, y>> \notin visited
      visited2 == visited \cup {<<x, y>>}
      contour2 == IF fresh
                  THEN Append(contourPoints, <<Norm(x, EdgeWidth), Norm(y, EdgeHeight)>>)
                  ELSE contourPoints
      startDir == (lastDir + 6) % 8
      Open(i) == LET dir == (startDir + i) % 8
                     nx == x + DirX[dir + 1]
                     ny == y + DirY[dir + 1]
                 IN  /\ nx >= 0 /\ nx < EdgeWidth /\ ny >= 0 /\ ny < EdgeHeight
                     /\ IsEdge(edges, nx, ny, threshold)
                     /\ <<nx, ny>> \notin visited2
      found == {i \in 0 .. 7 : Open(i)}
  IN  IF found = {} THEN contour2
      ELSE LET i == CHOOSE m \in found : \A j \in found : m <= j
               dir == (startDir + i) % 8
               nx == x + DirX[dir + 1]
               ny == y + DirY[dir + 1]
           IN  IF (nx # start[1] \/ ny # start[2]) /\ Len(contour2) < maxPoints
               THEN TraceLoop(edges, threshold, start, nx, ny, dir, visited2, contour2)
               ELSE contour2

traceContour(edges, threshold) ==
  LET start == ContourStart(edges, threshold)
  IN  IF start[1] = -1 THEN <<>>
      ELSE TraceLoop(edges, threshold, start, start[1], start[2], 0, {}, <<>>)

\* ---- simplifyPath (Douglas-Peucker); distances are squared
sqDist(p1, p2) ==
  LET dx == RSub(p1[1], p2[1])
      dy == RSub(p1[2], p2[2])
  IN  RAdd(RMul(dx, dx), RMul(dy, dy))

pointToLineDistance(point, lineStart, lineEnd) ==
  LET A == RSub(point[1], lineStart[1])
      B == RSub(point[2], lineStart[2])
      C == RSub(lineEnd[1], lineStart[1])
      D == RSub(lineEnd[2], lineStart[2])
      dot == RAdd(RMul(A, C), RMul(B, D))
      lenSq == RAdd(RMul(C, C), RMul(D, D))
      param == IF lenSq # Rat(0) THEN RDiv(dot, lenSq) ELSE Rat(-1)
  IN  IF RLt(param, Rat(0)) THEN sqDist(point, lineStart)
      ELSE IF RLt(Rat(1), param) THEN sqDist(point, lineEnd)
      ELSE sqDist(point, <<RAdd(lineStart[1], RMul(param, C)), RAdd(lineStart[2], RMul(param, D))>>)

\* index in start + 1 .. end - 1 of the first point farthest from the
\* segment, with its distance; <<0, 0>> when no point is off the segment
RECURSIVE Farthest(_, _, _, _, _, _)
Farthest(pts, start, end, i, maxDist, maxIdx) ==
  IF i >= end THEN <<maxDist, maxIdx>>
  ELSE LET dist == pointToLineDistance(pts[i + 1], pts[start + 1], pts[end + 1])
       IN  IF RLt(maxDist, dist) THEN Farthest(pts, start, end, i + 1, dist, i)
           ELSE Farthest(pts, start, end, i + 1, maxDist, maxIdx)

\* the recursion, joining the halves without dropping the shared split point
RECURSIVE simplifySegmentNoSlice(_, _, _, _)
simplifySegmentNoSlice(pts, tolerance, start, end) ==
  LET far == Farthest(pts, start, end, start + 1, Rat(0), 0)
  IN  IF RLt(RMul(tolerance, tolerance), far[1])
      THEN simplifySegmentNoSlice(pts, tolerance, start, far[2])
             \o simplifySegmentNoSlice(pts, tolerance, far[2], end)
      ELSE <<pts[start + 1], pts[end + 1]>>

RECURSIVE simplifySegment(_, _, _, _)
simplifySegment(pts, tolerance, start, end) ==
  LET far == Farthest(pts, start, end, start + 1, Rat(0), 0)
  IN  IF RLt(RMul(tolerance, tolerance), far[1])
      THEN LET left == simplifySegment(pts, tolerance, start, far[2])
               right == simplifySegment(pts, tolerance, far[2], end)
           IN  SubSeq(left, 1, Len(left) - 1) \o right
      ELSE <<pts[start + 1], pts[end + 1]>>

simplifyPath(pts, tolerance) ==
  IF Len(pts) < 3 THEN pts ELSE simplifySegment(pts, tolerance, 0, Len(pts) - 1)

\* ---- the two operations on the parent's state
NoImage == <<>>
NotANumber == <<>>

\* pending images: at most two dark pixels, or no contrast at all
PendingImages ==
  {g \in Images : Cardinality({y \in DOMAIN g : g[y] = 0}) \in {0, 1, 2, ImageHeight}}

\* what the user can type into the mileage prompt, parsed
Mileages == {NotANumber, Rat(0), Rat(UnitsPerDegree)}

\* a route already on the map
ExistingRoute == <<<<Rat(0), Rat(0)>>, <<Rat(0), Rat(UnitsPerDegree)>>>>

\* setPoints whatever imageToRoute resolved with
RouteAfterImageAlways(routePoints) == routePoints

\* setPoints(routePoints) only for a non-empty result
RouteAfterImage(routePoints) == IF Len(routePoints) > 0 THEN routePoints ELSE route

StartOp(kind, input) ==
  ops' = Append(ops, [kind |-> kind, input |-> input, pc |-> "await", outcome |-> "",
                      retried |-> FALSE, mapPoints |-> <<>>,
                      before |-> <<>>, after |-> <<>>, busyAfter |-> TRUE])

\* an invocation that returns before its first await
RejectOp(kind, input) ==
  /\ ops' = Append(ops, [kind |-> kind, input |-> input, pc |-> "done", outcome |-> "rejected",
                          retried |-> FALSE, mapPoints |-> <<>>,
                          before |-> route, after |-> route, busyAfter |-> FALSE])
  /\ finished' = Append(finished, Len(ops) + 1)

EndOp(k, outcome, retried) ==
  /\ ops' = [ops EXCEPT ![k].pc = "done", ![k].outcome = outcome, ![k].retried = retried,
                        ![k].before = route, ![k].after = route',
                        ![k].busyAfter = IF ops[k].kind = "image" THEN isProcessingImage'
                                         ELSE isSnappingRoads']
  /\ finished' = Append(finished, k)

\* handleImageUpload of a PNG file, once the reader has loaded it
handleImageUpload ==
  /\ args.file # NoImage
  /\ args.pendingImage = NoImage
  /\ args' = [args EXCEPT !.pendingImage = args.file]
  /\ UNCHANGED <<overlayVars, snapVars, decVars, pageVars, drawVars, callee, result, appVars>>

\* processImageWithMileage up to await imageToRoute
processImageWithMileage(miles, view) ==
  /\ args.pendingImage # NoImage
  /\ Len(ops) < MaxOperations
  /\ IF miles = NotANumber \/ RLe(miles, Rat(0))
     THEN /\ alerts' = Append(alerts, "Please enter a valid mileage greater than 0")
          /\ RejectOp("image", [image |-> args.pendingImage, mileage |-> miles, view |-> view])
          /\ UNCHANGED isProcessingImage
     ELSE /\ isProcessingImage' = TRUE
          /\ StartOp("image", [image |-> args.pendingImage, mileage |-> miles, view |-> view])
          /\ UNCHANGED <<alerts, finished>>
  /\ UNCHANGED <<route, svgBounds, svgNormalizedPoints, isSnappingRoads, escaped>>
  /\ UNCHANGED <<overlayVars, snapVars, decVars, pageVars, drawVars, callVars>>

\* imageToRoute resolves: the rest of processImageWithMileage
imageToRouteResolves(k) ==
  /\ ops[k].kind = "image"
  /\ ops[k].pc = "await"
  /\ isProcessingImage' = FALSE
  /\ LET routePoints == imageToRoute(ops[k].input.image, ops[k].input.mileage, ops[k].input.view)
     IN  /\ route' = RouteAfterImage(routePoints)
         /\ alerts' = Append(alerts, IF Len(routePoints) > 0 THEN "Route generated!"
                                     ELSE "Could not extract route from image")
         /\ EndOp(k, IF Len(routePoints) > 0 THEN "ok" ELSE "noShape", FALSE)
  /\ args' = [args EXCEPT !.pendingImage = NoImage]
  /\ UNCHANGED <<svgBounds, svgNormalizedPoints, isSnappingRoads, escaped>>
  /\ UNCHANGED <<overlayVars, snapVars, decVars, pageVars, drawVars, callee, result>>

\* tracePNGAndSnap up to the await of the image load
tracePNGAndSnap ==
  /\ args.edges # NoImage
  /\ Len(ops) < MaxOperations
  /\ IF args.referenceBounds = NoBox
     THEN /\ alerts' = Append(alerts, "Please upload a PNG image first")
          /\ RejectOp("trace", [edges |-> args.edges, referenceBounds |-> args.referenceBounds])
          /\ UNCHANGED isSnappingRoads
     ELSE /\ isSnappingRoads' = TRUE
          /\ StartOp("trace", [edges |-> args.edges, referenceBounds |-> args.referenceBounds])
          /\ UNCHANGED <<alerts, finished>>
  /\ UNCHANGED <<route, svgBounds, svgNormalizedPoints, isProcessingImage, escaped>>
  /\ UNCHANGED <<overlayVars, snapVars, decVars, pageVars, drawVars, callVars>>

\* the image load settles: edge detection, tracing, simplification and
\* mapping, up to await snapToRoadsOSRM
tracePNGLoaded(k, loaded) ==
  /\ ops[k].kind = "trace"
  /\ ops[k].pc = "await"
  /\ UNCHANGED route
  /\ LET edges == ops[k].input.edges
         edgeThreshold == EdgeThreshold(edges)
         firstTry == traceContour(edges, edgeThreshold)
         retry == Len(firstTry) < 3
         contourPoints == IF retry THEN traceContour(edges, RHalf(edgeThreshold)) ELSE firstTry
         simplifiedPoints == simplifyPath(contourPoints, <<5, 1000>>)
         traced == tracePNGMapPoints(simplifiedPoints, ops[k].input.referenceBounds)
     IN  IF ~loaded
         THEN /\ alerts' = Append(alerts, "Error tracing image")
              /\ isSnappingRoads' = FALSE
              /\ EndOp(k, "error", FALSE)
         ELSE IF Len(contourPoints) < 3
         THEN /\ alerts' = Append(alerts, "Could not detect outline in the image")
              /\ isSnappingRoads' = FALSE
              /\ EndOp(k, "noShape", retry)
         ELSE IF Len(traced) < 2
         THEN /\ alerts' = Append(alerts, "Not enough points extracted from image")
              /\ isSnappingRoads' = FALSE
              /\ EndOp(k, "tooFew", retry)
         ELSE /\ ops' = [ops EXCEPT ![k].pc = "snap", ![k].retried = retry, ![k].mapPoints = traced]
              /\ UNCHANGED <<alerts, isSnappingRoads, finished>>
  /\ UNCHANGED <<svgBounds, svgNormalizedPoints, isProcessingImage, escaped>>
  /\ UNCHANGED <<overlayVars, snapVars, decVars, pageVars, drawVars, callVars>>

\* snapToRoadsOSRM resolves: setPoints, the alert, finally
tracePNGSnapped(k, resps) ==
  /\ ops[k].kind = "trace"
  /\ ops[k].pc = "snap"
  /\ route' = SnapAll(ops[k].mapPoints, resps)
  /\ alerts' = Append(alerts, "Traced waypoints, snapped to road points!")
  /\ isSnappingRoads' = FALSE
  /\ EndOp(k, "ok", ops[k].retried)
  /\ UNCHANGED <<svgBounds, svgNormalizedPoints, isProcessingImage, escaped>>
  /\ UNCHANGED <<overlayVars, snapVars, decVars, pageVars, drawVars, callVars>>

ExtractNext ==
  \/ handleImageUpload
  \/ \E miles \in Mileages, view \in {NoBox, MapView} : processImageWithMileage(miles, view)
  \/ \E k \in 1 .. Len(ops) : imageToRouteResolves(k)
  \/ tracePNGAndSnap
  \/ \E k \in 1 .. Len(ops), loaded \in BOOLEAN : tracePNGLoaded(k, loaded)
  \/ \E k \in 1 .. Len(ops) : \E resps \in CallResponses(ops[k].mapPoints) : tracePNGSnapped(k, resps)

\* either an image is pending for processImageWithMileage, or a reference
\* image is loaded for tracePNGAndSnap
ExtractInit ==
  /\ callee = "none"
  /\ args \in {[file |-> g, pendingImage |-> g, edges |-> NoImage, referenceBounds |-> NoBox] :
                 g \in PendingImages}
            \cup {[file |-> NoImage, pendingImage |-> NoImage, edges |-> e, referenceBounds |-> b] :
                    e \in EdgeMaps, b \in {NoBox, MapView}}
  /\ result = <<>>
  /\ route \in {<<>>, ExistingRoute}
  /\ svgBounds = NoBox
  /\ svgNormalizedPoints = <<>>
  /\ isSnappingRoads = FALSE
  /\ isProcessingImage = FALSE
  /\ alerts = <<>>
  /\ ops = <<>>
  /\ finished = <<>>
  /\ escaped = FALSE
  /\ aspectRatio = NoRatio
  /\ leafletElement = FALSE
  /\ bounds = InitialBox(NoRatio)
  /\ overlayBounds = bounds
  /\ markerPos = MarkerPositions(bounds)
  /\ dragStartBounds = [h \in Handles |-> NoBox]
  /\ isDraggingImage = FALSE
  /\ dragStartPos = NoBox
  /\ active = NoHandle
  /\ gestures = 0
  /\ ptr = NoPos
  /\ candidate = NoBox
  /\ accepted = FALSE
  /\ lastEvent = "none"
  /\ lastHandle = NoHandle
  /\ gestureStartBox = NoBox
  /\ boundsChangeCalls = 0
  /\ resnaps = 0
  /\ mapPoints = <<>>
  /\ waypoints = <<>>
  /\ segIndex = 0
  /\ snappedPoints = <<>>
  /\ snapPc = "idle"
  /\ inflight = {}
  /\ issued = <<>>
  /\ responses = <<>>
  /\ boundaries = <<>>
  /\ snapResult = <<>>
  /\ decInput = 0
  /\ decWaypoints = <<>>
  /\ decRequests = 0
  /\ decPc = "done"
  /\ snapToRoads = FALSE
  /\ isRouting = FALSE
  /\ clicks = <<>>
  /\ isProcessingSVG = FALSE
  /\ drawnLines = <<>>
  /\ undoStack = <<>>
  /\ redoStack = <<>>
  /\ drawLog = <<>>

SpecExtract == ExtractInit /\ [][ExtractNext]_vars

\* extraction found no shape: no pixel under the darkness threshold, or
\* fewer than 3 contour points at the edge threshold and at half of it
NoShapeFound(op) ==
  IF op.kind = "image"
  THEN DarkPixels(op.input.image, DarkThreshold(op.input.image), 0) = <<>>
  ELSE LET edgeThreshold == EdgeThreshold(op.input.edges)
       IN  /\ Len(traceContour(op.input.edges, edgeThreshold)) < 3
           /\ Len(traceContour(op.input.edges, RHalf(edgeThreshold))) < 3

FailureAlert(op) ==
  IF op.kind = "image" THEN "Could not extract route from image"
  ELSE "Could not detect outline in the image"

Alerted(text) == \E i \in 1 .. Len(alerts) : alerts[i] = text

\* the operation ran its extraction to the end
Extracted16(op) == op.pc = "done" /\ op.outcome \notin {"rejected", "error"}

\* C16: an extraction that finds no shape (no sub-threshold pixel, or fewer
\* than 3 contour points even after the retry with the halved threshold)
\* ends by alerting the failure, without a throw escaping, with the route
\* exactly as it was before the operation ended and the busy flag cleared.
C16_NoShapeReported ==
  \A k \in 1 .. Len(ops) :
    (Extracted16(ops[k]) /\ NoShapeFound(ops[k])) =>
      /\ ops[k].outcome = "noShape"
      /\ Alerted(FailureAlert(ops[k]))
      /\ ops[k].after = ops[k].before
      /\ ops[k].busyAfter = FALSE
      /\ ~escaped

\* an image without a dark pixel has been processed over an existing route
C16_Witness ==
  \E k \in 1 .. Len(ops) :
    /\ ops[k].kind = "image"
    /\ Extracted16(ops[k])
    /\ NoShapeFound(ops[k])
    /\ ops[k].input.view # NoBox
    /\ ops[k].before = ExistingRoute
    /\ route = ExistingRoute

\* a trace has failed after the retry with the halved threshold
C16_TraceRetried ==
  \E k \in 1 .. Len(ops) :
    /\ ops[k].kind = "trace"
    /\ Extracted16(ops[k])
    /\ NoShapeFound(ops[k])
    /\ ops[k].retried
    /\ route = ExistingRoute

(***************************************************************************)
(* simplifyPath on its own.                                                *)
(***************************************************************************)
\* the list of the worked example, in normalised image coordinates
ThreePointList == <<<<Rat(0), Rat(0)>>, <<<<1, 2>>, <<1, 1000>>>>, <<Rat(1), Rat(0)>>>>

SimplifyPointSet == {<<Rat(x), Rat(y)>> : x \in 0 .. 2, y \in 0 .. 1}

\* 0.005 is the tolerance tracePNGAndSnap passes
Tolerances == {<<1, 10000>>, <<1, 200>>, <<1, 100>>, <<1, 2>>, Rat(1)}

SimplifyCall == Call("simplifyPath", simplifyPath(args.points, args.tolerance))

SimplifyNext == SimplifyCall

SimplifyInit ==
  /\ callee = "none"
  /\ args \in {[points |-> q, tolerance |-> t] :
                 q \in SeqsUpTo(SimplifyPointSet, MaxSimplifyLen) \cup {ThreePointList},
                 t \in Tolerances}
  /\ result = <<>>
  /\ aspectRatio = NoRatio
  /\ leafletElement = FALSE
  /\ bounds = InitialBox(NoRatio)
  /\ overlayBounds = bounds
  /\ markerPos = MarkerPositions(bounds)
  /\ dragStartBounds = [h \in Handles |-> NoBox]
  /\ isDraggingImage = FALSE
  /\ dragStartPos = NoBox
  /\ active = NoHandle
  /\ gestures = 0
  /\ ptr = NoPos
  /\ candidate = NoBox
  /\ accepted = FALSE
  /\ lastEvent = "none"
  /\ lastHandle = NoHandle
  /\ gestureStartBox = NoBox
  /\ boundsChangeCalls = 0
  /\ resnaps = 0
  /\ mapPoints = <<>>
  /\ waypoints = <<>>
  /\ segIndex = 0
  /\ snappedPoints = <<>>
  /\ snapPc = "idle"
  /\ inflight = {}
  /\ issued = <<>>
  /\ responses = <<>>
  /\ boundaries = <<>>
  /\ snapResult = <<>>
  /\ decInput = 0
  /\ decWaypoints = <<>>
  /\ decRequests = 0
  /\ decPc = "done"
  /\ route = <<>>
  /\ svgBounds = NoBox
  /\ svgNormalizedPoints = <<>>
  /\ isSnappingRoads = FALSE
  /\ isProcessingImage = FALSE
  /\ alerts = <<>>
  /\ ops = <<>>
  /\ finished = <<>>
  /\ escaped = FALSE
  /\ snapToRoads = FALSE
  /\ isRouting = FALSE
  /\ clicks = <<>>
  /\ isProcessingSVG = FALSE
  /\ drawnLines = <<>>
  /\ undoStack = <<>>
  /\ redoStack = <<>>
  /\ drawLog = <<>>

SpecSimplify == SimplifyInit /\ [][SimplifyNext]_vars

\* sub is sq with some elements left out, the order kept
RECURSIVE IsSubsequence(_, _)
IsSubsequence(sub, sq) ==
  IF sub = <<>> THEN TRUE
  ELSE IF sq = <<>> THEN FALSE
  ELSE IF Head(sub) = Head(sq) THEN IsSubsequence(Tail(sub), Tail(sq))
  ELSE IsSubsequence(sub, Tail(sq))

\* largest squared deviation of an interior point from the chord first-last
MaxDeviation(pts) ==
  LET dev(i) == pointToLineDistance(pts[i], pts[1], pts[Len(pts)])
      worst == CHOOSE i \in 2 .. Len(pts) - 1 : \A j \in 2 .. Len(pts) - 1 : RLe(dev(j), dev(i))
  IN  dev(worst)

\* C21: simplifyPath returns an order-preserving subsequence of its input
\* that starts with the first and ends with the last input point; nothing
\* but the two end points is kept exactly when no interior point deviates
\* from the chord by more than the tolerance (compared squared); the
\* three-point example collapses at tolerance 0.01 and is returned whole at
\* tolerance 0.0001.
C21_SimplifyPath ==
  callee = "simplifyPath" =>
    LET pts == args.points
        tol == args.tolerance
    IN  /\ IsSubsequence(result, pts)
        /\ Len(pts) = 0 => result = <<>>
        /\ Len(pts) > 0 => /\ Len(result) > 0
                            /\ result[1] = pts[1]
                            /\ result[Len(result)] = pts[Len(pts)]
        /\ Len(pts) >= 3 => (Len(result) = 2 <=> RLe(MaxDeviation(pts), RMul(tol, tol)))
        /\ (pts = ThreePointList /\ tol = <<1, 100>>) => result = <<pts[1], pts[3]>>
        /\ (pts = ThreePointList /\ tol = <<1, 10000>>) => result = pts

\* a four-point path split once: one interior point kept, one dropped
C21_Witness ==
  /\ callee = "simplifyPath"
  /\ Len(args.points) = 4
  /\ Len(result) = 3
  /\ result[2] \in {args.points[2], args.points[3]}

(***************************************************************************)
(* Clicks on the map with snap-to-roads: handleMapClick.                   *)
(***************************************************************************)
StartPoint == <<Rat(0), Rat(0)>>
ClickPoints == {<<Rat(1), Rat(1)>>, <<Rat(2), Rat(2)>>}

\* a point on the road the service routes over between two points
ViaPoint(start, end) ==
  <<RAdd(RMul(Rat(10), start[1]), end[1]), RAdd(RMul(Rat(10), start[2]), end[2])>>

\* answers of the routing service to the request from start to end
ClickResponses(start, end) ==
  {[kind |-> k, path |-> <<>>] : k \in {"throw", "http", "notOk"}}
    \cup {[kind |-> "ok", path |-> q] :
            q \in {<<end>>, <<start, end>>, <<start, ViaPoint(start, end), end>>}}

\* setIsRouting(false) only when no other click is waiting for its route
RoutingFlagAfterCounted(k) == \E j \in 1 .. Len(clicks) : j # k /\ clicks[j].pc = "await"

\* setIsRouting(false) in the finally block
RoutingFlagAfter(k) == FALSE

\* the updater of the last click to resolve replaces the route by its own
RouteAfterClickFromSnapshot(k, added) == clicks[k].before \o added

\* setPoints(prev => [...prev, ...]) on the latest state
RouteAfterClick(k, added) == route \o added

\* handleMapClick up to await getOSRMRoute, or to its end without snapping
handleMapClick(newPoint) ==
  /\ Len(clicks) < MaxClicks
  /\ IF snapToRoads /\ Len(route) > 0
     THEN /\ isRouting' = TRUE
          /\ clicks' = Append(clicks, [newPoint |-> newPoint, lastPoint |-> route[Len(route)],
                                       pc |-> "await", snapped |-> TRUE,
                                       overlapped |-> \E j \in 1 .. Len(clicks) : clicks[j].pc = "await",
                                       before |-> route, added |-> <<>>])
          /\ UNCHANGED <<route, finished>>
     ELSE /\ route' = Append(route, newPoint)
          /\ clicks' = Append(clicks, [newPoint |-> newPoint, lastPoint |-> NoPos,
                                       pc |-> "done", snapped |-> FALSE,
                                       overlapped |-> \E j \in 1 .. Len(clicks) : clicks[j].pc = "await",
                                       before |-> route, added |-> <<newPoint>>])
          /\ finished' = Append(finished, Len(clicks) + 1)
          /\ UNCHANGED isRouting
  /\ UNCHANGED <<snapToRoads, isProcessingSVG>>
  /\ UNCHANGED <<svgBounds, svgNormalizedPoints, isSnappingRoads, isProcessingImage, alerts, ops, escaped>>
  /\ UNCHANGED <<overlayVars, snapVars, decVars, callVars, drawVars>>

\* getOSRMRoute settles: the rest of handleMapClick
getOSRMRouteResolves(k, resp) ==
  /\ clicks[k].pc = "await"
  /\ LET routed == getOSRMRoute(clicks[k].lastPoint, clicks[k].newPoint, resp)
         added == IF Len(routed) > 1 THEN Tail(routed) ELSE <<clicks[k].newPoint>>
     IN  /\ route' = RouteAfterClick(k, added)
         /\ clicks' = [clicks EXCEPT ![k].pc = "done", ![k].added = added]
  /\ isRouting' = RoutingFlagAfter(k)
  /\ finished' = Append(finished, k)
  /\ UNCHANGED <<snapToRoads, isProcessingSVG>>
  /\ UNCHANGED <<svgBounds, svgNormalizedPoints, isSnappingRoads, isProcessingImage, alerts, ops, escaped>>
  /\ UNCHANGED <<overlayVars, snapVars, decVars, callVars, drawVars>>

ClickNext ==
  \/ \E newPoint \in ClickPoints : handleMapClick(newPoint)
  \/ \E k \in {j \in 1 .. Len(clicks) : clicks[j].pc = "await"} :
       \E resp \in ClickResponses(clicks[k].lastPoint, clicks[k].newPoint) :
         getOSRMRouteResolves(k, resp)

ClickInit ==
  /\ aspectRatio = NoRatio
  /\ leafletElement = FALSE
  /\ bounds = InitialBox(NoRatio)
  /\ overlayBounds = bounds
  /\ markerPos = MarkerPositions(bounds)
  /\ dragStartBounds = [h \in Handles |-> NoBox]
  /\ isDraggingImage = FALSE
  /\ dragStartPos = NoBox
  /\ active = NoHandle
  /\ gestures = 0
  /\ ptr = NoPos
  /\ candidate = NoBox
  /\ accepted = FALSE
  /\ lastEvent = "none"
  /\ lastHandle = NoHandle
  /\ gestureStartBox = NoBox
  /\ boundsChangeCalls = 0
  /\ resnaps = 0
  /\ mapPoints = <<>>
  /\ waypoints = <<>>
  /\ segIndex = 0
  /\ snappedPoints = <<>>
  /\ snapPc = "idle"
  /\ inflight = {}
  /\ issued = <<>>
  /\ responses = <<>>
  /\ boundaries = <<>>
  /\ snapResult = <<>>
  /\ decInput = 0
  /\ decWaypoints = <<>>
  /\ decRequests = 0
  /\ decPc = "done"
  /\ callee = "none"
  /\ args = <<>>
  /\ result = <<>>
  /\ route \in {<<>>, <<StartPoint>>}
  /\ svgBounds = NoBox
  /\ svgNormalizedPoints = <<>>
  /\ isSnappingRoads = FALSE
  /\ isProcessingImage = FALSE
  /\ alerts = <<>>
  /\ ops = <<>>
  /\ finished = <<>>
  /\ escaped = FALSE
  /\ snapToRoads \in BOOLEAN
  /\ isRouting = FALSE
  /\ clicks = <<>>
  /\ isProcessingSVG = FALSE
  /\ drawnLines = <<>>
  /\ undoStack = <<>>
  /\ redoStack = <<>>
  /\ drawLog = <<>>

SpecClick == ClickInit /\ [][ClickNext]_vars

\* click b was made while the route of the earlier click a was awaited
Overlapping(a, b) ==
  /\ a < b
  /\ clicks[a].snapped /\ clicks[b].snapped
  /\ clicks[a].pc = "done" /\ clicks[b].pc = "done"
  /\ clicks[b].overlapped

\* C22: with snap-to-roads on, when B is clicked while the request of A is
\* in flight, the Route ends with the routed points of A followed by those
\* of B, and the segment of B was routed from the end point of the segment
\* of A, whatever the order of the two responses.
C22_ClicksInTravelOrder ==
  \A a, b \in 1 .. Len(clicks) :
    (Overlapping(a, b) /\ b = a + 1 /\ b = Len(clicks)) =>
      /\ route = clicks[a].before \o clicks[a].added \o clicks[b].added
      /\ clicks[b].lastPoint = clicks[a].added[Len(clicks[a].added)]

\* two snapped clicks that did not overlap are in travel order
C22_SequentialClicksInOrder ==
  \A a, b \in 1 .. Len(clicks) :
    (a < b /\ b = Len(clicks) /\ b = a + 1 /\ clicks[a].pc = "done" /\ clicks[b].pc = "done"
       /\ clicks[b].snapped /\ ~clicks[b].overlapped) =>
      /\ route = clicks[a].before \o clicks[a].added \o clicks[b].added
      /\ clicks[b].lastPoint = clicks[a].added[Len(clicks[a].added)]

(***************************************************************************)
(* The display of the overlay between gestures.                            *)
(***************************************************************************)
\* C23: whenever no gesture is in progress the overlay and its nine handles
\* are drawn on the authoritative committed box, also after a gesture that
\* ended on a rejected candidate.
C23_DisplayOnCommittedBox ==
  (active = NoHandle /\ ~isDraggingImage) =>
    /\ overlayBounds = bounds
    /\ markerPos = MarkerPositions(bounds)

\* the same after gestures whose final candidate was committed
C23_DisplayAfterCommit ==
  (active = NoHandle /\ ~isDraggingImage /\ GestureEnded /\ accepted) =>
    /\ overlayBounds = bounds
    /\ markerPos = MarkerPositions(bounds)

\* the same after an edge gesture whose final candidate was rejected
C23_DisplayAfterRejectedEdge ==
  (active = NoHandle /\ ~isDraggingImage /\ GestureEnded /\ lastHandle \in Edges /\ ~accepted) =>
    /\ overlayBounds = bounds
    /\ markerPos = MarkerPositions(bounds)

(***************************************************************************)
(* A corner gesture without displacement.                                  *)
(***************************************************************************)
\* a corner gesture with a pinned ratio has ended with the pointer on the
\* corner of the box it started from
ZeroDisplacement ==
  /\ GestureEnded
  /\ lastHandle \in Corners
  /\ aspectRatio # NoRatio
  /\ ptr = MarkerPositions(gestureStartBox)[lastHandle]

HasPinnedRatio(b) == Width(b) = RMul(Height(b), aspectRatio)

\* C24 as stated: a corner gesture with a pinned ratio that ends with the
\* pointer on the snapshot's corner commits a box equal to the snapshot, for
\* every valid snapshot, stretched ones included.
C24_ZeroDisplacementIdentity ==
  ZeroDisplacement => bounds = gestureStartBox

\* C24 amended: a corner gesture with a pinned ratio that ends with the
\* pointer on the snapshot's corner leaves the box equal to the snapshot
\* when the snapshot's width / height is the pinned ratio.
C24_ZeroDisplacementIdentityAtRatio ==
  (ZeroDisplacement /\ HasPinnedRatio(gestureStartBox)) => bounds = gestureStartBox

\* such a gesture has committed, after an earlier gesture changed the box
C24_Witness ==
  /\ ZeroDisplacement
  /\ HasPinnedRatio(gestureStartBox)
  /\ accepted
  /\ boundsChangeCalls = 1
  /\ gestures = 2
  /\ bounds = gestureStartBox
  /\ bounds # InitialBox(aspectRatio)

(***************************************************************************)
(* What each waypoint pair adds to the stitched route.                     *)
(***************************************************************************)
\* number of points pair j added to the route
Contribution(j) == boundaries[j] - (IF j = 1 THEN 0 ELSE boundaries[j - 1])

\* C25: every consecutive waypoint pair contributes at least one point to
\* the stitched route, so the route ends at the end point of the last pair
\* (routed or raw), also when a pair after the first gets a one-point path.
C25_EveryPairContributes ==
  SnapDone
    => /\ \A j \in Pairs : Contribution(j) >= 1
       /\ Last(snapResult) = Last(SegmentOf(Len(waypoints) - 1))

\* the same when no routed path has fewer than two points
C25_ContributesWithoutShortPaths ==
  (SnapDone /\ \A j \in Pairs : Len(SegmentOf(j)) >= 2)
    => /\ \A j \in Pairs : Contribution(j) >= 1
       /\ Last(snapResult) = Last(SegmentOf(Len(waypoints) - 1))

(***************************************************************************)
(* Freehand drawings: add, delete, clear, undo, redo.                      *)
(***************************************************************************)
\* lines handed to handleLineComplete, as lists of point ids; the first has
\* a single point
LineInputs == {<<1>>, <<1, 2>>, <<3, 4>>}

\* the state of the drawings before a step, as drawLog keeps it
DrawSnapshot(kind) ==
  [kind |-> kind, drawn |-> drawnLines, undo |-> undoStack, redo |-> redoStack]

MayAct == Len(drawLog) < MaxActions

\* the redo entry holding the snapshot being restored instead of the
\* current lines
UndoRedoEntryFromStack(lastAction) == [type |-> "undo", lines |-> lastAction.lines]

\* { type: 'undo', lines: drawnLines }
UndoRedoEntry(lastAction) == [type |-> "undo", lines |-> drawnLines]

handleLineComplete(line) ==
  /\ MayAct
  /\ IF Len(line) > 1
     THEN /\ undoStack' = Append(undoStack, [type |-> "add", lines |-> drawnLines])
          /\ redoStack' = <<>>
          /\ drawnLines' = Append(drawnLines, line)
          /\ drawLog' = Append(drawLog, DrawSnapshot("add"))
     ELSE UNCHANGED drawVars
  /\ UNCHANGED <<overlayVars, snapVars, decVars, callVars, appVars, pageVars>>

deleteLastLine ==
  /\ MayAct
  /\ Len(drawnLines) # 0
  /\ undoStack' = Append(undoStack, [type |-> "delete", lines |-> drawnLines])
  /\ redoStack' = <<>>
  /\ drawnLines' = SubSeq(drawnLines, 1, Len(drawnLines) - 1)
  /\ drawLog' = Append(drawLog, DrawSnapshot("delete"))
  /\ UNCHANGED <<overlayVars, snapVars, decVars, callVars, appVars, pageVars>>

handleUndo ==
  /\ MayAct
  /\ Len(undoStack) # 0
  /\ LET lastAction == undoStack[Len(undoStack)]
     IN  /\ redoStack' = Append(redoStack, UndoRedoEntry(lastAction))
         /\ drawnLines' = lastAction.lines
         /\ undoStack' = SubSeq(undoStack, 1, Len(undoStack) - 1)
  /\ drawLog' = Append(drawLog, DrawSnapshot("undo"))
  /\ UNCHANGED <<overlayVars, snapVars, decVars, callVars, appVars, pageVars>>

handleRedo ==
  /\ MayAct
  /\ Len(redoStack) # 0
  /\ LET lastRedo == redoStack[Len(redoStack)]
     IN  /\ undoStack' = Append(undoStack, [type |-> "redo", lines |-> drawnLines])
         /\ drawnLines' = lastRedo.lines
         /\ redoStack' = SubSeq(redoStack, 1, Len(redoStack) - 1)
  /\ drawLog' = Append(drawLog, DrawSnapshot("redo"))
  /\ UNCHANGED <<overlayVars, snapVars, decVars, callVars, appVars, pageVars>>

clearAllDrawings ==
  /\ MayAct
  /\ Len(drawnLines) # 0
  /\ undoStack' = Append(undoStack, [type |-> "clear", lines |-> drawnLines])
  /\ redoStack' = <<>>
  /\ drawnLines' = <<>>
  /\ drawLog' = Append(drawLog, DrawSnapshot("clear"))
  /\ UNCHANGED <<overlayVars, snapVars, decVars, callVars, appVars, pageVars>>

DrawNext ==
  \/ \E line \in LineInputs : handleLineComplete(line)
  \/ deleteLastLine
  \/ handleUndo
  \/ handleRedo
  \/ clearAllDrawings

DrawInit ==
  /\ aspectRatio = NoRatio
  /\ leafletElement = FALSE
  /\ bounds = InitialBox(NoRatio)
  /\ overlayBounds = bounds
  /\ markerPos = MarkerPositions(bounds)
  /\ dragStartBounds = [h \in Handles |-> NoBox]
  /\ isDraggingImage = FALSE
  /\ dragStartPos = NoBox
  /\ active = NoHandle
  /\ gestures = 0
  /\ ptr = NoPos
  /\ candidate = NoBox
  /\ accepted = FALSE
  /\ lastEvent = "none"
  /\ lastHandle = NoHandle
  /\ gestureStartBox = NoBox
  /\ boundsChangeCalls = 0
  /\ resnaps = 0
  /\ mapPoints = <<>>
  /\ waypoints = <<>>
  /\ segIndex = 0
  /\ snappedPoints = <<>>
  /\ snapPc = "idle"
  /\ inflight = {}
  /\ issued = <<>>
  /\ responses = <<>>
  /\ boundaries = <<>>
  /\ snapResult = <<>>
  /\ decInput = 0
  /\ decWaypoints = <<>>
  /\ decRequests = 0
  /\ decPc = "done"
  /\ callee = "none"
  /\ args = <<>>
  /\ result = <<>>
  /\ route = <<>>
  /\ svgBounds = NoBox
  /\ svgNormalizedPoints = <<>>
  /\ isSnappingRoads = FALSE
  /\ isProcessingImage = FALSE
  /\ alerts = <<>>
  /\ ops = <<>>
  /\ finished = <<>>
  /\ escaped = FALSE
  /\ snapToRoads = FALSE
  /\ isRouting = FALSE
  /\ clicks = <<>>
  /\ isProcessingSVG = FALSE
  /\ drawnLines = <<>>
  /\ undoStack = <<>>
  /\ redoStack = <<>>
  /\ drawLog = <<>>

SpecDraw == DrawInit /\ [][DrawNext]_vars

EditKinds == {"add", "delete", "clear"}

\* the last k steps were all of kind later, the k steps before all among earlier
LastSteps(k, earlier, later) ==
  /\ Len(drawLog) >= 2 * k
  /\ \A i \in Len(drawLog) - k + 1 .. Len(drawLog) : drawLog[i].kind = later
  /\ \A i \in Len(drawLog) - 2 * k + 1 .. Len(drawLog) - k : drawLog[i].kind \in earlier

\* the state before the last 2k steps
BeforeLast(k) == drawLog[Len(drawLog) - 2 * k + 1]

Snapshots(stack) == [i \in 1 .. Len(stack) |-> stack[i].lines]

UndosRestore ==
  \A k \in 1 .. MaxActions :
    LastSteps(k, EditKinds, "undo") => drawnLines = BeforeLast(k).drawn

EditsClearRedo ==
  (Len(drawLog) > 0 /\ drawLog[Len(drawLog)].kind \in EditKinds) => redoStack = <<>>

\* C26 as stated: k undos restore the drawn lines to what they were before
\* the last k add / delete / clear actions; k redos directly afterwards
\* restore the lines, the undo stack and the redo stack to what they were
\* before those undos; every new add, delete or clear empties the redo stack.
C26_UndoRedoInverse ==
  /\ UndosRestore
  /\ EditsClearRedo
  /\ \A k \in 1 .. MaxActions :
       LastSteps(k, {"undo"}, "redo") =>
         /\ drawnLines = BeforeLast(k).drawn
         /\ undoStack = BeforeLast(k).undo
         /\ redoStack = BeforeLast(k).redo

\* C26 amended: as above, with the undo stack restored in length and in the
\* snapshots it holds (the entries pushed back carry the type 'redo').
C26_UndoRedoInverseOnSnapshots ==
  /\ UndosRestore
  /\ EditsClearRedo
  /\ \A k \in 1 .. MaxActions :
       LastSteps(k, {"undo"}, "redo") =>
         /\ drawnLines = BeforeLast(k).drawn
         /\ Snapshots(undoStack) = Snapshots(BeforeLast(k).undo)
         /\ redoStack = BeforeLast(k).redo

\* two undos, then two redos, with lines drawn before and after
C26_Witness ==
  /\ LastSteps(2, {"undo"}, "redo")
  /\ Len(drawnLines) > 0
  /\ drawnLines = BeforeLast(2).drawn
  /\ Len(undoStack) = 2
  /\ undoStack # BeforeLast(2).undo

(***************************************************************************)
(* The busy indicators while operations overlap.                           *)
(***************************************************************************)
ClickInFlight == \E k \in 1 .. Len(clicks) : clicks[k].pc = "await"

SnapInFlight == \E k \in 1 .. Len(ops) : ops[k].pc = "await"

\* C27: isRouting is true in every state in which a click-triggered routing
\* request is in flight, and isSnappingRoads is true in every state in which
\* a snap operation is in flight, also when two operations overlap and one
\* of them has completed.
C27_BusyFlagsAccurate ==
  /\ ClickInFlight => isRouting
  /\ SnapInFlight => isSnappingRoads

\* the snapping half on its own
C27_SnappingFlagAccurate == SnapInFlight => isSnappingRoads

\* the flags while at most one operation has been started
C27_FlagsWithoutOverlap ==
  (Len(clicks) <= 1 /\ Len(ops) <= 1) => C27_BusyFlagsAccurate

(***************************************************************************)
(* The SVG upload: handleSVGUpload.                                        *)
(***************************************************************************)
NoFile == "none"
UploadedFiles == {NoFile, "png", "svg"}

\* the initial box of the overlay: 60% of the map view, at the SVG's ratio
SvgInitialBounds(view, ratio) ==
  LET mapWidth == RSub(view.east, view.west)
      mapHeight == RSub(view.north, view.south)
      wide == RLt(RDiv(mapWidth, mapHeight), ratio)
      overlayWidth == IF wide THEN RMul(mapWidth, <<3, 5>>)
                      ELSE RMul(RMul(mapHeight, <<3, 5>>), ratio)
      overlayHeight == IF wide THEN RDiv(RMul(mapWidth, <<3, 5>>), ratio)
                       ELSE RMul(mapHeight, <<3, 5>>)
  IN  Box(RSub(CenterLat(view), RHalf(overlayHeight)), RSub(CenterLng(view), RHalf(overlayWidth)),
          RAdd(CenterLat(view), RHalf(overlayHeight)), RAdd(CenterLng(view), RHalf(overlayWidth)))

\* the points extractSVGPaths can return: none, one, or two
UploadShapes == {q \in NormalizedShapes : Len(q) <= 2}

\* what reading and parsing the file comes to: file.text() rejects, the
\* document is not an SVG, or the points extracted from it with the ratio of
\* its viewBox and the map view at that moment (NoBox without a map)
ParsedFiles ==
  {[kind |-> k, allPoints |-> <<>>, ratio |-> NoRatio, view |-> NoBox] : k \in {"unreadable", "invalid"}}
    \cup {[kind |-> "ok", allPoints |-> q, ratio |-> <<4, 3>>, view |-> v] :
            q \in UploadShapes, v \in {NoBox, MapView}}

\* the flag kept by a return that skipped the finally block
UploadFlagAfterReturn(outcome) == outcome = "noShape"

\* isProcessingSVG once handleSVGUpload has ended with the outcome: every
\* way out of the try block runs setIsProcessingSVG(false)
UploadFlagAfter(outcome) == FALSE

\* the operation ends and leaves isProcessingSVG as the finally block sets it
EndUpload(k, outcome) ==
  /\ ops' = [ops EXCEPT ![k].pc = "done", ![k].outcome = outcome,
                        ![k].before = route, ![k].after = route',
                        ![k].busyAfter = isProcessingSVG']
  /\ finished' = Append(finished, k)

\* handleSVGUpload up to await file.text()
handleSVGUpload(file) ==
  /\ Len(ops) < MaxOperations
  /\ IF file = NoFile
     THEN UNCHANGED <<alerts, ops, finished, isProcessingSVG>>
     ELSE IF file # "svg"
     THEN /\ alerts' = Append(alerts, "Please upload an SVG file")
          /\ RejectOp("svg", file)
          /\ UNCHANGED isProcessingSVG
     ELSE /\ isProcessingSVG' = TRUE
          /\ StartOp("svg", file)
          /\ UNCHANGED <<alerts, finished>>
  /\ UNCHANGED <<route, svgBounds, svgNormalizedPoints, isSnappingRoads, isProcessingImage, escaped>>
  /\ UNCHANGED <<snapToRoads, isRouting, clicks>>
  /\ UNCHANGED <<overlayVars, snapVars, decVars, callVars, drawVars>>

\* file.text() settles: parsing, extraction and snapSVGToRoads up to its
\* await of snapToRoadsOSRM
svgTextResolves(k, parsed) ==
  /\ ops[k].kind = "svg"
  /\ ops[k].pc = "await"
  /\ UNCHANGED route
  /\ IF parsed.kind # "ok"
     THEN /\ alerts' = Append(alerts, "Error processing SVG")
          /\ isProcessingSVG' = UploadFlagAfter("error")
          /\ EndUpload(k, "error")
          /\ UNCHANGED <<svgBounds, svgNormalizedPoints, isSnappingRoads>>
     ELSE IF Len(parsed.allPoints) = 0
     THEN /\ alerts' = Append(alerts, "Could not extract any paths from the SVG")
          /\ isProcessingSVG' = UploadFlagAfter("noShape")
          /\ EndUpload(k, "noShape")
          /\ UNCHANGED <<svgBounds, svgNormalizedPoints, isSnappingRoads>>
     ELSE IF parsed.view = NoBox
     THEN /\ svgNormalizedPoints' = parsed.allPoints
          /\ isProcessingSVG' = UploadFlagAfter("ok")
          /\ EndUpload(k, "ok")
          /\ UNCHANGED <<alerts, svgBounds, isSnappingRoads>>
     ELSE LET initial == SvgInitialBounds(parsed.view, parsed.ratio)
              converted == normalizedToMapCoords(parsed.allPoints, initial)
          IN  /\ svgNormalizedPoints' = parsed.allPoints
              /\ svgBounds' = initial
              /\ UNCHANGED alerts
              /\ IF Len(converted) < 2
                 THEN /\ isSnappingRoads' = FALSE
                      /\ isProcessingSVG' = UploadFlagAfter("tooFew")
                      /\ EndUpload(k, "tooFew")
                 ELSE /\ isSnappingRoads' = TRUE
                      /\ ops' = [ops EXCEPT ![k].pc = "snap", ![k].mapPoints = converted]
                      /\ UNCHANGED <<isProcessingSVG, finished>>
  /\ UNCHANGED <<isProcessingImage, escaped>>
  /\ UNCHANGED <<snapToRoads, isRouting, clicks>>
  /\ UNCHANGED <<overlayVars, snapVars, decVars, callVars, drawVars>>

\* snapToRoadsOSRM resolves inside the upload: setPoints, the finally of
\* snapSVGToRoads, then the finally of handleSVGUpload
svgSnapResolves(k, resps) ==
  /\ ops[k].kind = "svg"
  /\ ops[k].pc = "snap"
  /\ route' = SnapAll(ops[k].mapPoints, resps)
  /\ isSnappingRoads' = FALSE
  /\ isProcessingSVG' = FALSE
  /\ EndUpload(k, "ok")
  /\ UNCHANGED <<alerts, svgBounds, svgNormalizedPoints, isProcessingImage, escaped>>
  /\ UNCHANGED <<snapToRoads, isRouting, clicks>>
  /\ UNCHANGED <<overlayVars, snapVars, decVars, callVars, drawVars>>

(***************************************************************************)
(* The page with its asynchronous operations side by side: snapped map     *)
(* clicks, traces of the reference image, re-snaps of the SVG overlay and  *)
(* SVG uploads, each awaiting the browser or the routing service.          *)
(***************************************************************************)
Started == Len(ops) + Len(clicks)
MayStart == Started < MaxStarted

\* one place to click, one box to commit
BusyClickPoints == {<<Rat(1), Rat(1)>>}
BusyBoxes == {InitialBox(<<4, 3>>)}

TraceableEdges == {[i \in 0 .. EdgeWidth * EdgeHeight - 1 |-> v] : v \in EdgeValues}

\* the routing service in one mood for a whole call: every pair fails, or
\* every pair gets a path of the same length
UniformResponses(pts) ==
  {r \in CallResponses(pts) :
     \A j \in DOMAIN r : r[j].kind = r[1].kind /\ Len(r[j].path) = Len(r[1].path)}

\* the operations awaiting at the given step
Awaiting(kind, pc) == {k \in 1 .. Len(ops) : ops[k].kind = kind /\ ops[k].pc = pc}

ClickResolves ==
  \E k \in {j \in 1 .. Len(clicks) : clicks[j].pc = "await"} :
    /\ finished' = Append(finished, k)
    /\ \E resp \in ClickResponses(clicks[k].lastPoint, clicks[k].newPoint) : getOSRMRouteResolves(k, resp)
TraceLoads == \E k \in Awaiting("trace", "await"), loaded \in BOOLEAN : tracePNGLoaded(k, loaded)
TraceSnaps ==
  \E k \in Awaiting("trace", "snap") :
    /\ finished' = Append(finished, k)
    /\ \E resps \in UniformResponses(ops[k].mapPoints) : tracePNGSnapped(k, resps)
ResnapResolves ==
  \E k \in Awaiting("snap", "await") :
    /\ finished' = Append(finished, k)
    /\ \E resps \in CallResponses(ops[k].mapPoints) : snapSVGToRoadsResumes(k, resps)
UploadReads == \E k \in Awaiting("svg", "await"), parsed \in ParsedFiles : svgTextResolves(k, parsed)
UploadSnaps ==
  \E k \in Awaiting("svg", "snap") :
    /\ finished' = Append(finished, k)
    /\ \E resps \in CallResponses(ops[k].mapPoints) : svgSnapResolves(k, resps)

BusyNext ==
  \/ MayStart /\ \E p \in BusyClickPoints : handleMapClick(p)
  \/ MayStart /\ tracePNGAndSnap
  \/ MayStart /\ \E b \in BusyBoxes : handleSVGBoundsChange(b)
  \/ MayStart /\ \E file \in UploadedFiles : handleSVGUpload(file)
  \/ ClickResolves
  \/ TraceLoads
  \/ TraceSnaps
  \/ ResnapResolves
  \/ UploadReads
  \/ UploadSnaps

BusyInit ==
  /\ callee = "none"
  /\ args \in {[file |-> NoImage, pendingImage |-> NoImage, edges |-> e, referenceBounds |-> b] :
                 e \in TraceableEdges, b \in {MapView}}
  /\ result = <<>>
  /\ route = <<StartPoint>>
  /\ svgBounds = NoBox
  /\ svgNormalizedPoints = <<>>
  /\ isSnappingRoads = FALSE
  /\ isProcessingImage = FALSE
  /\ alerts = <<>>
  /\ ops = <<>>
  /\ finished = <<>>
  /\ escaped = FALSE
  /\ snapToRoads = TRUE
  /\ isRouting = FALSE
  /\ clicks = <<>>
  /\ isProcessingSVG = FALSE
  /\ aspectRatio = NoRatio
  /\ leafletElement = FALSE
  /\ bounds = InitialBox(NoRatio)
  /\ overlayBounds = bounds
  /\ markerPos = MarkerPositions(bounds)
  /\ dragStartBounds = [h \in Handles |-> NoBox]
  /\ isDraggingImage = FALSE
  /\ dragStartPos = NoBox
  /\ active = NoHandle
  /\ gestures = 0
  /\ ptr = NoPos
  /\ candidate = NoBox
  /\ accepted = FALSE
  /\ lastEvent = "none"
  /\ lastHandle = NoHandle
  /\ gestureStartBox = NoBox
  /\ boundsChangeCalls = 0
  /\ resnaps = 0
  /\ mapPoints = <<>>
  /\ waypoints = <<>>
  /\ segIndex = 0
  /\ snappedPoints = <<>>
  /\ snapPc = "idle"
  /\ inflight = {}
  /\ issued = <<>>
  /\ responses = <<>>
  /\ boundaries = <<>>
  /\ snapResult = <<>>
  /\ decInput = 0
  /\ decWaypoints = <<>>
  /\ decRequests = 0
  /\ decPc = "done"
  /\ drawnLines = <<>>
  /\ undoStack = <<>>
  /\ redoStack = <<>>
  /\ drawLog = <<>>

Resolves ==
  \/ ClickResolves
  \/ TraceLoads
  \/ TraceSnaps
  \/ ResnapResolves
  \/ UploadReads
  \/ UploadSnaps

\* every await settles: the routing service answers or fails, the image
\* loads or errors, the file is read or the read rejects
BusyFairness == WF_vars(Resolves)

SpecBusy == BusyInit /\ [][BusyNext]_vars /\ BusyFairness

ClickPending(k) == Len(clicks) >= k /\ clicks[k].pc = "await"
ClickGrown(k) == Len(clicks) >= k /\ clicks[k].pc = "done" /\ Len(clicks[k].added) >= 1
OperationPending(k) == Len(ops) >= k /\ ops[k].pc # "done"
OperationCleared(k) ==
  /\ Len(ops) >= k
  /\ ops[k].pc = "done"
  /\ ops[k].kind = "snap" \/ ~ops[k].busyAfter
NothingPending ==
  /\ \A k \in 1 .. Len(clicks) : clicks[k].pc = "done"
  /\ \A k \in 1 .. Len(ops) : ops[k].pc = "done"
NoBusyFlag == ~isRouting /\ ~isSnappingRoads /\ ~isProcessingSVG

\* C28: when every await settles, every started operation finishes and its
\* busy flag is cleared: whenever a click, trace, re-snap or upload is
\* pending, a state follows in which nothing is pending, isRouting,
\* isSnappingRoads and isProcessingSVG are all false, every snapped click has
\* added at least one point to the route, and every operation ended with
\* its flag cleared.
C28_OperationsFinish ==
  ~NothingPending ~>
    /\ NothingPending
    /\ NoBusyFlag
    /\ \A k \in 1 .. Len(clicks) : ClickGrown(k)
    /\ \A k \in 1 .. Len(ops) : OperationCleared(k)

\* a snapped click and an upload that went through to the road snap have
\* both ended, and no flag is set
C28_Witness ==
  /\ NothingPending
  /\ NoBusyFlag
  /\ \E k \in 1 .. Len(clicks) : clicks[k].snapped /\ Len(clicks[k].added) >= 1
  /\ \E k \in 1 .. Len(ops) : ops[k].kind = "svg" /\ ops[k].outcome = "ok" /\ Len(ops[k].mapPoints) >= 2

(***************************************************************************)
(* traceContour, one iteration of its do-while loop at a time.  The call   *)
(* record holds the locals of the function.                                *)
(***************************************************************************)
\* the first direction the scan of an iteration examines, opposite lastDir
ScanStartOpposite(lastDir) == (lastDir + 4) % 8

\* const startDir = (lastDir + 6) % 8
ScanStart(lastDir) == (lastDir + 6) % 8

\* !visited.has(`${nx},${ny}`)
Unvisited(visited, pixel) == pixel \notin visited

\* a while test without the cap
CapReachedNever(contourPoints) == FALSE

\* the negation of contourPoints.length < maxPoints
CapReached(contourPoints) == Len(contourPoints) >= maxPoints

\* a pixel at the threshold counts as an edge
AtOrAboveThreshold(c, x, y) == RLe(c.threshold, Rat(c.edges[y * c.width + x]))

\* edges[y * width + x] > threshold
AboveThreshold(c, x, y) == RLt(c.threshold, Rat(c.edges[y * c.width + x]))

InsideImage(c, x, y) == x >= 0 /\ x < c.width /\ y >= 0 /\ y < c.height

\* the neighbour of (c.x, c.y) in direction dir
Neighbour(c, dir) == <<c.x + DirX[dir + 1], c.y + DirY[dir + 1]>>

\* the test of the inner for loop, given the visited set of this iteration
OpenNeighbour(c, visited, dir) ==
  LET n == Neighbour(c, dir)
  IN  /\ InsideImage(c, n[1], n[2])
      /\ AboveThreshold(c, n[1], n[2])
      /\ Unvisited(visited, n)

\* the call record of traceContour(edges, width, height, threshold)
TraceCall(edges, width, height, threshold) ==
  [edges |-> edges, width |-> width, height |-> height, threshold |-> threshold,
   pc |-> "seed", startX |-> -1, startY |-> -1, x |-> -1, y |-> -1, lastDir |-> 0,
   visited |-> {}, contourPoints |-> <<>>, incoming |-> 0, arrived |-> FALSE,
   scanned |-> <<>>, found |-> FALSE, stop |-> "", iterations |-> 0,
   at |-> <<-1, -1>>, cameFrom |-> <<-1, -1>>]

\* the search for the starting point and the early return
traceContourSeed ==
  /\ callee = "traceContour"
  /\ args.pc = "seed"
  /\ LET hits == {i \in DOMAIN args.edges :
                   AboveThreshold(args, i % args.width, i \div args.width)}
         first == CHOOSE i \in hits : \A j \in hits : i <= j
     IN  IF hits = {}
         THEN /\ args' = [args EXCEPT !.pc = "done", !.stop = "empty"]
              /\ result' = <<>>
         ELSE /\ args' = [args EXCEPT !.pc = "loop",
                                      !.startX = first % args.width,
                                      !.startY = first \div args.width,
                                      !.x = first % args.width,
                                      !.y = first \div args.width]
              /\ UNCHANGED result
  /\ UNCHANGED callee
  /\ UNCHANGED <<overlayVars, snapVars, decVars, appVars, pageVars, drawVars>>

\* one iteration of the do-while loop, with its while test
traceContourIterate ==
  /\ callee = "traceContour"
  /\ args.pc = "loop"
  /\ LET fresh == <<args.x, args.y>> \notin args.visited
         visited2 == args.visited \cup {<<args.x, args.y>>}
         contour2 == IF fresh
                     THEN Append(args.contourPoints,
                                 <<Norm(args.x, args.width), Norm(args.y, args.height)>>)
                     ELSE args.contourPoints
         startDir == ScanStart(args.lastDir)
         hits == {i \in 0 .. 7 : OpenNeighbour(args, visited2, (startDir + i) % 8)}
         found == hits # {}
         last == IF found THEN CHOOSE i \in hits : \A j \in hits : i <= j ELSE 7
         dir == (startDir + last) % 8
         next == Neighbour(args, dir)
         atSeed == next[1] = args.startX /\ next[2] = args.startY
         full == CapReached(contour2)
         looked == [args EXCEPT !.visited = visited2, !.contourPoints = contour2,
                                !.incoming = args.lastDir, !.arrived = args.iterations > 0,
                                !.scanned = [i \in 1 .. last + 1 |-> (startDir + i - 1) % 8],
                                !.found = found, !.iterations = args.iterations + 1,
                                !.at = <<args.x, args.y>>, !.cameFrom = args.at]
     IN  IF ~found
         THEN /\ args' = [looked EXCEPT !.pc = "done", !.stop = "noNeighbour"]
              /\ result' = contour2
         ELSE IF atSeed \/ full
         THEN /\ args' = [looked EXCEPT !.x = next[1], !.y = next[2], !.lastDir = dir,
                                        !.pc = "done", !.stop = IF atSeed THEN "seed" ELSE "cap"]
              /\ result' = contour2
         ELSE /\ args' = [looked EXCEPT !.x = next[1], !.y = next[2], !.lastDir = dir]
              /\ UNCHANGED result
  /\ UNCHANGED callee
  /\ UNCHANGED <<overlayVars, snapVars, decVars, appVars, pageVars, drawVars>>

TraceNext ==
  \/ traceContourSeed
  \/ traceContourIterate

\* edge maps of EdgeHeight rows and up to MaxTraceWidth columns
TraceMaps(width) == [0 .. width * EdgeHeight - 1 -> EdgeValues]

\* a single row with one edge pixel more than the cap
CapWidth == maxPoints + 1
CapStrip == [i \in 0 .. CapWidth - 1 |-> 100]

\* the calls checked: every small map against a threshold its edge pixels
\* exceed and one they do not
TraceInputs ==
  UNION {{TraceCall(e, w, EdgeHeight, t) : e \in TraceMaps(w), t \in {Rat(50), Rat(100)}} :
           w \in 1 .. MaxTraceWidth}

TraceInit ==
  /\ callee = "traceContour"
  /\ args \in TraceInputs
  /\ result = <<>>
  /\ aspectRatio = NoRatio
  /\ leafletElement = FALSE
  /\ bounds = InitialBox(NoRatio)
  /\ overlayBounds = bounds
  /\ markerPos = MarkerPositions(bounds)
  /\ dragStartBounds = [h \in Handles |-> NoBox]
  /\ isDraggingImage = FALSE
  /\ dragStartPos = NoBox
  /\ active = NoHandle
  /\ gestures = 0
  /\ ptr = NoPos
  /\ candidate = NoBox
  /\ accepted = FALSE
  /\ lastEvent = "none"
  /\ lastHandle = NoHandle
  /\ gestureStartBox = NoBox
  /\ boundsChangeCalls = 0
  /\ resnaps = 0
  /\ mapPoints = <<>>
  /\ waypoints = <<>>
  /\ segIndex = 0
  /\ snappedPoints = <<>>
  /\ snapPc = "idle"
  /\ inflight = {}
  /\ issued = <<>>
  /\ responses = <<>>
  /\ boundaries = <<>>
  /\ snapResult = <<>>
  /\ decInput = 0
  /\ decWaypoints = <<>>
  /\ decRequests = 0
  /\ decPc = "done"
  /\ route = <<>>
  /\ svgBounds = NoBox
  /\ svgNormalizedPoints = <<>>
  /\ isSnappingRoads = FALSE
  /\ isProcessingImage = FALSE
  /\ alerts = <<>>
  /\ ops = <<>>
  /\ finished = <<>>
  /\ escaped = FALSE
  /\ snapToRoads = FALSE
  /\ isRouting = FALSE
  /\ clicks = <<>>
  /\ isProcessingSVG = FALSE
  /\ drawnLines = <<>>
  /\ undoStack = <<>>
  /\ redoStack = <<>>
  /\ drawLog = <<>>

\* a function once called runs to its return
SpecTrace == TraceInit /\ [][TraceNext]_vars /\ WF_vars(TraceNext)

\* the walk along the strip, which is long enough to meet the cap
TraceCapInit ==
  /\ callee = "traceContour"
  /\ args = TraceCall(CapStrip, CapWidth, 1, Rat(50))
  /\ result = <<>>
  /\ aspectRatio = NoRatio
  /\ leafletElement = FALSE
  /\ bounds = InitialBox(NoRatio)
  /\ overlayBounds = bounds
  /\ markerPos = MarkerPositions(bounds)
  /\ dragStartBounds = [h \in Handles |-> NoBox]
  /\ isDraggingImage = FALSE
  /\ dragStartPos = NoBox
  /\ active = NoHandle
  /\ gestures = 0
  /\ ptr = NoPos
  /\ candidate = NoBox
  /\ accepted = FALSE
  /\ lastEvent = "none"
  /\ lastHandle = NoHandle
  /\ gestureStartBox = NoBox
  /\ boundsChangeCalls = 0
  /\ resnaps = 0
  /\ mapPoints = <<>>
  /\ waypoints = <<>>
  /\ segIndex = 0
  /\ snappedPoints = <<>>
  /\ snapPc = "idle"
  /\ inflight = {}
  /\ issued = <<>>
  /\ responses = <<>>
  /\ boundaries = <<>>
  /\ snapResult = <<>>
  /\ decInput = 0
  /\ decWaypoints = <<>>
  /\ decRequests = 0
  /\ decPc = "done"
  /\ route = <<>>
  /\ svgBounds = NoBox
  /\ svgNormalizedPoints = <<>>
  /\ isSnappingRoads = FALSE
  /\ isProcessingImage = FALSE
  /\ alerts = <<>>
  /\ ops = <<>>
  /\ finished = <<>>
  /\ escaped = FALSE
  /\ snapToRoads = FALSE
  /\ isRouting = FALSE
  /\ clicks = <<>>
  /\ isProcessingSVG = FALSE
  /\ drawnLines = <<>>
  /\ undoStack = <<>>
  /\ redoStack = <<>>
  /\ drawLog = <<>>

SpecTraceCap == TraceCapInit /\ [][TraceNext]_vars

\* no pixel of the image exceeds the threshold
NoEdgeAbove(c) == \A i \in DOMAIN c.edges : c.edges[i] * c.threshold[2] <= c.threshold[1]

\* no neighbour of the current pixel is inside, above the threshold and unvisited
NowhereToGo(c) ==
  \A dir \in 0 .. 7 :
    LET n == Neighbour(c, dir)
    IN  ~(InsideImage(c, n[1], n[2]) /\ AboveThreshold(c, n[1], n[2]) /\ n \notin c.visited)

\* contourPoints only grows, so the list is compared with itself once the
\* walk has stopped; while it runs the two counts are compared
WalkSafe ==
  /\ Cardinality(args.visited) = Len(args.contourPoints)
  /\ Len(args.contourPoints) <= maxPoints
  /\ args.pc = "done" =>
       /\ Cardinality({args.contourPoints[i] : i \in DOMAIN args.contourPoints}) = Len(args.contourPoints)
       /\ result = args.contourPoints
       /\ \/ args.stop = "empty" /\ NoEdgeAbove(args)
          \/ args.stop = "seed" /\ args.x = args.startX /\ args.y = args.startY
          \/ args.stop = "cap" /\ Len(result) = maxPoints
          \/ args.stop = "noNeighbour" /\ NowhereToGo(args)
       /\ NoEdgeAbove(args) => result = <<>>

\* C29: traceContour terminates; it records no pixel twice, collects at most
\* maxPoints points, stops on returning to the seed, on reaching the cap or
\* when the current pixel has no unvisited neighbour above the threshold,
\* and returns the empty list when no pixel exceeds the threshold.
C29_WalkTerminates == []WalkSafe /\ <>(args.pc = "done")

\* a walk of four pixels has stopped where every neighbour above the
\* threshold is visited, with an edge pixel it never reached
C29_Witness ==
  /\ args.pc = "done"
  /\ args.stop = "noNeighbour"
  /\ Len(result) = 4
  /\ \E i \in DOMAIN args.edges :
       /\ AboveThreshold(args, i % args.width, i \div args.width)
       /\ <<i % args.width, i \div args.width>> \notin args.visited

\* under SpecTraceCap: the walk along the strip stops at the cap, one edge
\* pixel short, and in no other way
C29_StripStopsAtCap ==
  /\ WalkSafe
  /\ args.iterations <= maxPoints
  /\ args.pc = "done" => (args.stop = "cap" /\ Len(result) = maxPoints /\ args.iterations = maxPoints)

\* the other ways out are taken as well
C29_StopsWithoutNeighbour == ~(args.pc = "done" /\ args.stop = "noNeighbour" /\ Len(result) >= 4)
C29_ReturnsEmpty == ~(args.pc = "done" /\ args.stop = "empty" /\ \E i \in DOMAIN args.edges : args.edges[i] > 0)
C29_ReturnsToSeed == ~(args.pc = "done" /\ args.stop = "seed")

\* the stepwise walk returns what the recursive definition returns
C29_SameAsTraceLoop ==
  (args.pc = "done" /\ args.width = EdgeWidth /\ args.height = EdgeHeight)
    => result = traceContour(args.edges, args.threshold)

\* the last iteration scanned at a pixel the walk had moved to
ScannedAfterMove == callee = "traceContour" /\ args.iterations > 0 /\ args.arrived

\* direction 0 points right and each next direction is a turn to the right
\* on the canvas, whose y axis points down
ClockwiseFromRight ==
  /\ DirX[1] = 1 /\ DirY[1] = 0
  /\ \A d \in 0 .. 7 :
       DirX[d + 1] * DirY[((d + 1) % 8) + 1] - DirY[d + 1] * DirX[((d + 1) % 8) + 1] > 0

\* the scan went through consecutive directions, and the walk had come to
\* the scanned pixel moving in direction args.incoming
ScanInOrder ==
  /\ ClockwiseFromRight
  /\ \A i \in 1 .. Len(args.scanned) - 1 : args.scanned[i + 1] = (args.scanned[i] + 1) % 8
  /\ args.at = <<args.cameFrom[1] + DirX[args.incoming + 1], args.cameFrom[2] + DirY[args.incoming + 1]>>

\* C30 as stated: after arriving in direction d the clockwise scan starts
\* with the neighbour in direction (d + 4) mod 8
C30_ScanStartsOpposite ==
  ScannedAfterMove => (ScanInOrder /\ args.scanned[1] = (args.incoming + 4) % 8)

\* C30, amended: after arriving in direction d the clockwise scan starts
\* with the neighbour in direction (d + 6) mod 8, two directions
\* counter-clockwise of d
C30_ScanStartsTwoBack ==
  ScannedAfterMove => (ScanInOrder /\ args.scanned[1] = (args.incoming + 6) % 8)

\* a scan after a move that passed over its first neighbours before it
\* found the next pixel
C30_Witness ==
  /\ ScannedAfterMove
  /\ args.found
  /\ Len(args.scanned) > 2
  /\ args.incoming # 0

====
